---- MODULE Spec2Model ----
(***************************************************************************)
(* Multi-round weighted-consensus workflow of the DAO proposal generator.  *)
(*                                                                         *)
(* The repository holds two near-duplicate copies of the workflow:         *)
(*   "main" : src/main.py            (label-based text responses, regex)   *)
(*   "ml"   : src/ml-model/main.py   (JSON responses, json.loads)          *)
(* The variable `variant` says which copy a run executes.                  *)
(*                                                                         *)
(* Encoding of Python values                                               *)
(*   - A Python number is stored in halves: the int n is Num(n) = 2n and   *)
(*     the float n + 0.5 is 2n + 1.  JSON responses can carry non-integer  *)
(*     confidences; halves are exact as IEEE doubles.                      *)
(*   - A Python float produced by the scoring arithmetic is a record       *)
(*     [k, e] standing for the double  k/ScoreDen + e/(ScoreDen * 2^60):   *)
(*     k is the exact decimal value in twentieths, e the binary rounding   *)
(*     error.  FloatAdd and FloatDiv10 round to nearest, ties to even, as  *)
(*     IEEE 754 binary64 does.                                             *)
(*   - A value read from JSON that need not be a list is a record          *)
(*     [py, items]: py = "list" with its items, or py = "None".            *)
(***************************************************************************)
EXTENDS Integers, Sequences, FiniteSets, TLC

VARIABLES
    suspended,          \* the state of the other run on the same generator, or NoRun
    variant,            \* which copy of the workflow runs: "main" or "ml"
    pc,                 \* the LangGraph node about to run, "END", "returned" or "raised"
    proposal_input,     \* state["proposal_input"] (the request)
    generated_proposal, \* state["generated_proposal"]
    validator_votes,    \* state["validator_votes"]   (initial VoteSet)
    debate_arguments,   \* state["debate_arguments"]
    final_votes,        \* state["final_votes"]
    final_decision,     \* state["final_decision"]
    weighted_score,     \* state["weighted_score"]
    fungible,           \* state["fungible"]
    vote_tasks,         \* the coroutines of the Initial Vote round's asyncio.gather
    final_vote_tasks,   \* the coroutines of the Final Vote round's asyncio.gather
    arrival,            \* positions of the gather's tasks in the order they completed
    debate,             \* locals of _debate_round_node while its loop runs
    calls,              \* oracle calls issued so far, per kind, and rebuttal calls failed
    result,             \* what run() returned
    profile             \* the repertoire of the external oracles in this run

vars == << suspended, variant, pc, proposal_input, generated_proposal, validator_votes,
           debate_arguments, final_votes, final_decision, weighted_score,
           fungible, vote_tasks, final_vote_tasks, arrival, debate, calls, result, profile >>

(***************************************************************************)
(* Bounds of the model (not program constants).                            *)
(***************************************************************************)
\* the largest raw confidence an oracle response carries
MaxRawConf == 11
\* the longest VoteSet handed to the Debate Round node on its own
MaxVotes == 4

(***************************************************************************)
(* Python numbers in halves.                                               *)
(***************************************************************************)
Num(n) == 2 * n
IsInt(x) == x % 2 = 0
Min2(a, b) == IF a <= b THEN a ELSE b
Max2(a, b) == IF a >= b THEN a ELSE b
Abs(x) == IF x < 0 THEN -x ELSE x

(***************************************************************************)
(* IEEE 754 binary64 arithmetic on the values the scoring code produces.   *)
(***************************************************************************)
\* denominator of the exact part: confidence (in halves) / 10
ScoreDen == 10 * Num(1)

RECURSIVE Pow2(_)
Pow2(n) == IF n = 0 THEN 1 ELSE 2 * Pow2(n - 1)

\* 2^n mod m for m = ScoreDen and m = 2 * ScoreDen, without leaving 32-bit
\* integers: 2^(n+4) - 2^n = 15 * 2^n is a multiple of 40 once n >= 3
Pow2Mod(n, m) == Pow2(IF n < 3 THEN n ELSE 3 + ((n - 3) % 4)) % m

\* 2^j <= ak/ScoreDen + ae/(ScoreDen*2^60), for ak >= 1 and a tiny ae
BinadeAtLeast(ak, ae, j) ==
    LET lhs == IF j >= 0 THEN ScoreDen * Pow2(j) ELSE ScoreDen
        rhs == IF j >= 0 THEN ak ELSE ak * Pow2(-j)
    IN  lhs < rhs \/ (lhs = rhs /\ ae >= 0)

\* the binade j of a non-zero value: 2^j <= value < 2^(j+1)
RECURSIVE BinadeFrom(_, _, _)
BinadeFrom(ak, ae, j) ==
    IF j <= -8 \/ BinadeAtLeast(ak, ae, j) THEN j ELSE BinadeFrom(ak, ae, j - 1)
Binade(ak, ae) == BinadeFrom(ak, ae, 3)

\* round the exact value k/ScoreDen + e/(ScoreDen*2^60) to the nearest double
FloatRound(k, e) ==
    IF k = 0 THEN [k |-> 0, e |-> e]
    ELSE LET s  == IF k > 0 THEN 1 ELSE -1
             ak == s * k
             ae == s * e
             j  == Binade(ak, ae)
             sh == Pow2(j + 8)
             G  == ScoreDen * sh            \* spacing of doubles in binade j
             r  == (sh * ((ak * Pow2Mod(52 - j, ScoreDen)) % ScoreDen) + ae) % G
             q  == ((sh * ((ak * Pow2Mod(52 - j, 2 * ScoreDen)) % (2 * ScoreDen)) + ae)
                        % (2 * G)) \div G
             up == IF 2 * r < G THEN FALSE
                   ELSE IF 2 * r > G THEN TRUE
                   ELSE q = 1                 \* tie: to the even neighbour
         IN  [k |-> k, e |-> s * (ae - r + (IF up THEN G ELSE 0))]

FloatZero == [k |-> 0, e |-> 0]
\* x + y; the exact sum is bound as a value, so that it is computed once
FloatAdd(x, y) ==
    CHOOSE sum \in { FloatRound(k, e) : k \in { x.k + y.k }, e \in { x.e + y.e } } : TRUE
FloatNeg(x) == [k |-> -x.k, e |-> -x.e]
\* confidence / 10, confidence a number in halves
FloatDiv10(c) == FloatRound(c, 0)
FloatPositive(x) == x.k > 0 \/ (x.k = 0 /\ x.e > 0)
\* round(x, 2): every score is within 2^-40 of a multiple of 0.05
Round2(x) == CHOOSE rounded \in { FloatRound(k, 0) : k \in { x.k } } : TRUE
\* the float literal n.0
FloatOfInt(n) == [k |-> n * ScoreDen, e |-> 0]
\* the exact rational value is zero / positive (what real arithmetic would give)
ExactPositive(x) == x.k > 0

(***************************************************************************)
(* Reviewer configuration: DAOProposalGenerator.validator_roles, in the    *)
(* insertion order of the dict.  A focus string is kept as the sequence of *)
(* its comma-separated pieces.                                             *)
(***************************************************************************)
ReviewerIds == << "financial_auditor", "technical_reviewer", "community_advocate",
                  "security_analyst", "governance_expert" >>

N == Len(ReviewerIds)

Focus(id) ==
    CASE id = "financial_auditor" ->
           << "Evaluate budget feasibility", " ROI", " fund allocation",
              " and financial sustainability" >>
      [] id = "technical_reviewer" ->
           << "Assess implementation complexity", " technical feasibility",
              " and potential risks" >>
      [] id = "community_advocate" ->
           << "Judge community benefit", " inclusivity", " alignment with DAO mission" >>
      [] id = "security_analyst" ->
           << "Identify security vulnerabilities", " smart contract risks",
              " and attack vectors" >>
      [] id = "governance_expert" ->
           << "Check DAO governance compliance", " voting procedures",
              " and constitutional alignment" >>

\* role_info['focus'].split(',')[0] in main, role_info["focus"] in ml
RoleLabel(var, id) == IF var = "main" THEN << Head(Focus(id)) >> ELSE Focus(id)

(***************************************************************************)
(* Python values read from an oracle response.                             *)
(***************************************************************************)
PyList(items) == [py |-> "list", items |-> items]
PyNone == [py |-> "None", items |-> << >>]
PyAbsent == [py |-> "absent", items |-> << >>]

ConfAbsent == [t |-> "absent", v |-> 0]
ConfStr == [t |-> "str", v |-> 0]
ConfNum(x) == [t |-> "num", v |-> x]

\* an oracle call that raises (timeout, transport error, ...)
Raise(msg) ==
    [kind |-> "raise", error |-> msg, vote |-> "", confidence |-> ConfAbsent,
     reasoning |-> "", concerns |-> PyAbsent]
\* an answer in free prose: no labelled field, and no JSON
Prose ==
    [kind |-> "prose", error |-> "", vote |-> "", confidence |-> ConfAbsent,
     reasoning |-> "", concerns |-> PyAbsent]
\* an answer in the format the prompt asks for, carrying these fields
\* ("" and the Absent values: the field is missing)
Content(v, c, r, k) ==
    [kind |-> "content", error |-> "", vote |-> v, confidence |-> c,
     reasoning |-> r, concerns |-> k]

ToUpper(tok) ==
    CASE tok = "approve" -> "APPROVE"
      [] tok = "reject" -> "REJECT"
      [] OTHER -> tok

\* re.search(r'DECISION:\s*(APPROVE|REJECT)', content, re.IGNORECASE):
\* the matched token, or "" for no match
VoteMatch(resp) ==
    IF resp.kind = "content" /\ ToUpper(resp.vote) \in {"APPROVE", "REJECT"}
    THEN resp.vote ELSE ""

\* re.search(r'CONFIDENCE:\s*(\d+)', content): the digits matched, as int();
\* a sign or a word after the label matches nothing, a decimal point ends the digits
ConfMatch(resp) ==
    IF resp.kind = "content" /\ resp.confidence.t = "num" /\ resp.confidence.v >= 0
    THEN ConfNum(Num(resp.confidence.v \div 2)) ELSE ConfAbsent

\* max(1, min(10, confidence))
Clamp(c) == Max2(Num(1), Min2(Num(10), c))

RECURSIVE NonEmpty(_)
NonEmpty(s) ==
    IF s = << >> THEN << >>
    ELSE IF Head(s) = "" THEN NonEmpty(Tail(s)) ELSE << Head(s) >> \o NonEmpty(Tail(s))

\* s[:n]
Take(s, n) == SubSeq(s, 1, Min2(n, Len(s)))

\* a fallback that would treat a failed call like a missing field
\* (what the except branch does not do)
ErrorVoteAsDefault(var, id, msg) ==
    [validator_id |-> id, role |-> RoleLabel(var, id), vote |-> "REJECT",
     confidence |-> Num(5), reasoning |-> "No reasoning provided",
     concerns |-> PyList(<< >>)]

\* the except branch of get_validator_vote
ErrorVote(var, id, msg) ==
    IF var = "main"
    THEN [validator_id |-> id, role |-> RoleLabel(var, id), vote |-> "REJECT",
          confidence |-> Num(3), reasoning |-> "Error in evaluation: " \o msg,
          concerns |-> PyList(<< "Technical error in voting process" >>)]
    ELSE [validator_id |-> id, role |-> RoleLabel(var, id), vote |-> "REJECT",
          confidence |-> Num(1), reasoning |-> "Error: " \o msg,
          concerns |-> PyList(<< "Failed to process vote" >>)]

\* the text after "CONCERNS:", split at commas, stripped, empty pieces dropped,
\* the first three kept; the word None or null is one piece like any other
Concerns_main(raw) ==
    CASE raw.py = "list" -> PyList(Take(NonEmpty(raw.items), 3))
      [] raw.py = "None" -> PyList(<< "None" >>)
      [] OTHER -> PyList(<< >>)

\* get_validator_vote of src/main.py: regular expressions over the text
get_validator_vote_main(id, resp) ==
    IF resp.kind = "raise" THEN ErrorVote("main", id, resp.error)
    ELSE LET vm == VoteMatch(resp)
             cm == ConfMatch(resp)
         IN  [validator_id |-> id,
              role |-> RoleLabel("main", id),
              vote |-> IF vm # "" THEN ToUpper(vm) ELSE "REJECT",
              confidence |-> Clamp(IF cm.t = "num" THEN cm.v ELSE Num(5)),
              reasoning |-> IF resp.reasoning # "" THEN resp.reasoning
                            ELSE "No reasoning provided",
              concerns |-> Concerns_main(resp.concerns)]

\* get_validator_vote of src/ml-model/main.py: json.loads and dict.get
get_validator_vote_ml(id, resp) ==
    CASE resp.kind = "raise" -> ErrorVote("ml", id, resp.error)
      [] resp.kind = "prose" -> ErrorVote("ml", id, "JSONDecodeError")
      [] resp.kind = "content" /\ resp.confidence.t = "str" ->
              ErrorVote("ml", id, "TypeError")      \* min(10, "high")
      [] OTHER ->
           [validator_id |-> id,
            role |-> RoleLabel("ml", id),
            vote |-> IF resp.vote # "" THEN resp.vote ELSE "REJECT",
            confidence |-> Clamp(IF resp.confidence.t = "num" THEN resp.confidence.v
                                 ELSE Num(5)),
            reasoning |-> IF resp.reasoning # "" THEN resp.reasoning
                          ELSE "No reasoning provided",
            concerns |-> IF resp.concerns.py = "absent" THEN PyList(<< >>)
                         ELSE resp.concerns]

get_validator_vote(var, id, resp) ==
    IF var = "main" THEN get_validator_vote_main(id, resp)
    ELSE get_validator_vote_ml(id, resp)

\* get_final_vote of src/main.py
get_final_vote_main(original_vote, resp) ==
    IF resp.kind = "raise" THEN original_vote
    ELSE LET vm == VoteMatch(resp)
             cm == ConfMatch(resp)
         IN  [validator_id |-> original_vote.validator_id,
              role |-> original_vote.role,
              vote |-> IF vm # "" THEN ToUpper(vm) ELSE original_vote.vote,
              confidence |-> Clamp(IF cm.t = "num" THEN cm.v
                                   ELSE original_vote.confidence),
              reasoning |-> IF resp.reasoning # "" THEN resp.reasoning
                            ELSE original_vote.reasoning,
              concerns |-> original_vote.concerns]

\* get_final_vote of src/ml-model/main.py
get_final_vote_ml(original_vote, resp) ==
    IF \/ resp.kind \in {"raise", "prose"}
       \/ resp.confidence.t = "str"
    THEN original_vote
    ELSE [validator_id |-> original_vote.validator_id,
          role |-> original_vote.role,
          vote |-> IF resp.vote # "" THEN resp.vote ELSE original_vote.vote,
          confidence |-> Clamp(IF resp.confidence.t = "num" THEN resp.confidence.v
                               ELSE original_vote.confidence),
          reasoning |-> IF resp.reasoning # "" THEN resp.reasoning
                        ELSE original_vote.reasoning,
          concerns |-> original_vote.concerns]

\* a re-vote that would read the concerns again from the response (what
\* get_final_vote does not do)
get_final_vote_reparsing_concerns(var, original_vote, resp) ==
    LET kept == IF var = "main" THEN get_final_vote_main(original_vote, resp)
                ELSE get_final_vote_ml(original_vote, resp)
    IN  IF resp.kind # "content" THEN kept
        ELSE [kept EXCEPT !.concerns = IF var = "main" THEN Concerns_main(resp.concerns)
                                       ELSE resp.concerns]

\* a re-vote whose failure would force a REJECT (what the except branches do not do)
get_final_vote_forcing_reject(var, original_vote, resp) ==
    IF resp.kind = "raise"
    THEN [original_vote EXCEPT !.vote = "REJECT", !.confidence = Num(3)]
    ELSE IF var = "main" THEN get_final_vote_main(original_vote, resp)
    ELSE get_final_vote_ml(original_vote, resp)

get_final_vote(var, original_vote, resp) ==
    IF var = "main" THEN get_final_vote_main(original_vote, resp)
    ELSE get_final_vote_ml(original_vote, resp)

(***************************************************************************)
(* Text helpers.                                                           *)
(***************************************************************************)
LowerChar(c) ==
    CASE c = "A" -> "a" [] c = "B" -> "b" [] c = "C" -> "c" [] c = "D" -> "d"
      [] c = "E" -> "e" [] c = "F" -> "f" [] c = "G" -> "g" [] c = "H" -> "h"
      [] c = "I" -> "i" [] c = "J" -> "j" [] c = "K" -> "k" [] c = "L" -> "l"
      [] c = "M" -> "m" [] c = "N" -> "n" [] c = "O" -> "o" [] c = "P" -> "p"
      [] c = "Q" -> "q" [] c = "R" -> "r" [] c = "S" -> "s" [] c = "T" -> "t"
      [] c = "U" -> "u" [] c = "V" -> "v" [] c = "W" -> "w" [] c = "X" -> "x"
      [] c = "Y" -> "y" [] c = "Z" -> "z" [] OTHER -> c

\* str.lower()
RECURSIVE Lower(_)
Lower(s) ==
    IF Len(s) = 0 THEN ""
    ELSE LowerChar(SubSeq(s, 1, 1)) \o Lower(SubSeq(s, 2, Len(s)))

\* str.strip()
RECURSIVE LStrip(_)
LStrip(s) ==
    IF Len(s) > 0 /\ SubSeq(s, 1, 1) = " " THEN LStrip(SubSeq(s, 2, Len(s))) ELSE s
RECURSIVE RStrip(_)
RStrip(s) ==
    IF Len(s) > 0 /\ SubSeq(s, Len(s), Len(s)) = " "
    THEN RStrip(SubSeq(s, 1, Len(s) - 1)) ELSE s
Strip(s) == RStrip(LStrip(s))

\* keyword in text
Contains(text, keyword) ==
    \E i \in 1 .. (Len(text) - Len(keyword) + 1) :
        SubSeq(text, i, i + Len(keyword) - 1) = keyword

\* " ".join(parts)
RECURSIVE JoinWith(_, _)
JoinWith(sep, parts) ==
    IF parts = << >> THEN ""
    ELSE IF Len(parts) = 1 THEN parts[1]
    ELSE parts[1] \o sep \o JoinWith(sep, Tail(parts))

\* str(list_of_str): "['a', 'b']"
RECURSIVE Quoted(_)
Quoted(parts) ==
    IF parts = << >> THEN << >> ELSE << "'" \o Head(parts) \o "'" >> \o Quoted(Tail(parts))
StrOfList(parts) == "[" \o JoinWith(", ", Quoted(parts)) \o "]"

(***************************************************************************)
(* Vote lists.                                                             *)
(***************************************************************************)
\* sum(1 for v in votes if v["vote"] == side)
RECURSIVE CountVotes(_, _)
CountVotes(votes, side) ==
    IF votes = << >> THEN 0
    ELSE (IF Head(votes).vote = side THEN 1 ELSE 0) + CountVotes(Tail(votes), side)

\* the complementary selection (what the list comprehension does not do)
RECURSIVE VotesOfOthers(_, _)
VotesOfOthers(votes, side) ==
    IF votes = << >> THEN << >>
    ELSE (IF Head(votes).vote # side THEN << Head(votes) >> ELSE << >>)
         \o VotesOfOthers(Tail(votes), side)

\* [v for v in votes if v["vote"] == side]
RECURSIVE VotesOf(_, _)
VotesOf(votes, side) ==
    IF votes = << >> THEN << >>
    ELSE (IF Head(votes).vote = side THEN << Head(votes) >> ELSE << >>)
         \o VotesOf(Tail(votes), side)

\* (1 if v["vote"] == "APPROVE" else -1) * (v["confidence"] / 10)
ScoreTerm(v) ==
    IF v.vote = "APPROVE" THEN FloatDiv10(v.confidence)
    ELSE FloatNeg(FloatDiv10(v.confidence))

\* sum(... for v in votes): the builtin starts at int 0 and adds left to right
RECURSIVE SumFrom(_, _)
SumFrom(acc, votes) ==
    IF votes = << >> THEN acc
    ELSE \* the partial sum is one float, computed before the next addition
         CHOOSE total \in { SumFrom(partial, Tail(votes)) :
                               partial \in { FloatAdd(acc, ScoreTerm(Head(votes))) } } : TRUE
WeightedSum(votes) == SumFrom(FloatZero, votes)

\* a node that would leave the decision as run() initialised it (what
\* _final_vote_node does not do)
DecideNothing(score) == ""

\* "APPROVED" if weighted_score > 0 else "REJECTED"
Decide(score) == IF FloatPositive(score) THEN "APPROVED" ELSE "REJECTED"

(***************************************************************************)
(* The external oracles.  What they answer is not decided by the program:  *)
(* each call draws its outcome from the repertoire of the run's profile.   *)
(***************************************************************************)
NoProposal ==
    [kind |-> "empty", error |-> "", title |-> "", abstract |-> "", motivation |-> "",
     actions |-> << >>, expected_impact |-> "", requested_funds |-> "None"]
DraftError(msg) == [NoProposal EXCEPT !.kind = "error", !.error = msg]
Draft(title, abstract, actions, funds) ==
    [kind |-> "proposal", error |-> "", title |-> title, abstract |-> abstract,
     motivation |-> "Need", actions |-> actions, expected_impact |-> "High",
     requested_funds |-> funds]

Request(text) == [challenge_id |-> "PROP-2025-001", challenge_text |-> text]

\* the runs explored: each profile is one repertoire of the oracles
\*   "voting"  : every review and rebuttal is answered; a re-vote may fail
\*   "failing" : reviews and rebuttals may fail; every re-vote fails
\*   "malformed" : answers in prose, with unrecognised tokens, non-integer
\*                 confidences, missing fields or a null concerns value
\*   "outofrange" : answers whose confidence is 0, above 10 or not a number
\*   "ties"    : confidences 1, 2 and 3, whose weighted sums can cancel; every
\*               rebuttal and re-vote fails
\*   "order"   : the order in which the calls of a gather complete is recorded
\*   "nodes"   : the Debate Round and Final Vote nodes applied to a VoteSet of
\*               any length; rebuttals and re-votes may fail
\*   "fungibility" : requests and drafts with and without monetary words
\*   "first", "second" : the two runs in flight together on one generator; the
\*               panel splits 4 : 1 for the first request and 2 : 3 for the
\*               second, and every re-vote goes to the side that argued
\*   "null"    : one reviewer answers with a null concerns value, the others
\*               approve
\*   "flaky"   : the first review fails, the second rejects, the others
\*               approve; rebuttals may fail and every re-vote fails
\*   "revote"  : the panel splits 4 : 1; the re-vote answers name a decision,
\*               an unknown word or none, with a confidence that is a number,
\*               out of range, a word or missing
Profiles == {"voting", "failing", "malformed", "outofrange", "ties"}

\* requests a caller may submit
Requests(prof) ==
    IF prof = "fungibility"
    THEN { Request("Treasury tool"), Request("Plant trees"),
           Request("New METHOD"), Request("") }
    ELSE IF prof = "second"
    THEN { [challenge_id |-> "PROP-2025-002", challenge_text |-> "Plant trees"] }
    ELSE { Request("Treasury tool") }

\* outcomes of structured_llm.invoke
Drafts(prof) ==
    IF prof = "fungibility"
    THEN { DraftError("quota"),
           Draft("Park", "Tidy up", << "Plan", "Sweep" >>, "None"),
           Draft("Park", "Tidy up", << "Plan", "PayOut" >>, "None"),
           Draft("Park", "Tidy up", << "Plan" >>, "5 PYUSD"),
           Draft("Daily", "Tidy up", << "Plan" >>, "None") }
    ELSE { DraftError("quota"), Draft("Board", "Charts", << "Build" >>, "None") }

PlainConf == Num(7)
PlainApprove == Content("APPROVE", ConfNum(PlainConf), "Sound", PyList(<< "cost" >>))
PlainReject == Content("REJECT", ConfNum(PlainConf), "Risky", PyList(<< "risk" >>))

\* outcomes of llm.ainvoke in get_validator_vote
ReviewResponses(prof) ==
    CASE prof = "failing" -> { Raise("timeout"), PlainApprove, PlainReject }
      [] prof = "malformed" ->
           { PlainApprove, Prose,
             Content("approve", ConfNum(Num(7) + 1), "", PyNone) }
      [] prof = "outofrange" ->
           { PlainReject,
             Content("APPROVE", ConfNum(0), "Sound", PyList(<< "a", "", "b", "c", "d" >>)),
             Content("APPROVE", ConfNum(Num(MaxRawConf)), "Sound", PyAbsent) }
      [] prof = "ties" ->
           { Content("APPROVE", ConfNum(Num(1)), "Sound", PyList(<< "cost" >>)),
             Content("APPROVE", ConfNum(Num(2)), "Sound", PyList(<< "cost" >>)),
             Content("REJECT", ConfNum(Num(3)), "Risky", PyList(<< "risk" >>)) }
      [] prof = "order" -> { Raise("timeout"), PlainApprove }
      [] OTHER -> { PlainApprove, PlainReject }

\* the answers of reviewer i where the panel's answers are fixed by the request
ReviewAnswers(prof, i) ==
    CASE prof \in {"first", "revote"} ->
           IF i = 1 THEN { PlainReject } ELSE { PlainApprove }
      [] prof = "second" -> IF i \in {2, 3} THEN { PlainApprove } ELSE { PlainReject }
      [] prof = "null" ->
           IF i = 1 THEN { Content("REJECT", ConfNum(PlainConf), "Risky", PyNone) }
           ELSE { PlainApprove }
      [] prof = "flaky" ->
           IF i = 1 THEN { Raise("timeout") }
           ELSE IF i = 2 THEN { PlainReject } ELSE { PlainApprove }
      [] OTHER -> ReviewResponses(prof)

\* outcomes of llm.ainvoke in the debate loop
RebuttalResponses(prof) ==
    CASE prof = "failing" ->
           { Raise("timeout"), Content("", ConfAbsent, " Phase it ", PyAbsent) }
      [] prof = "ties" -> { Raise("timeout") }
      [] prof \in {"nodes", "flaky"} ->
           { Raise("timeout"), Content("", ConfAbsent, " Phase it ", PyAbsent) }
      [] OTHER -> { Content("", ConfAbsent, " Phase it ", PyAbsent) }

\* outcomes of llm.ainvoke in get_final_vote
RevoteResponses(prof) ==
    CASE prof = "voting" ->
           { Raise("timeout"),
             Content("APPROVE", ConfAbsent, "Convinced", PyAbsent),
             Content("REJECT", ConfAbsent, "Unconvinced", PyAbsent) }
      [] prof = "malformed" ->
           { Content("reject", ConfStr, "", PyNone) }
      [] prof = "outofrange" ->
           { Content("", ConfNum(Num(MaxRawConf)), "", PyAbsent) }
      [] prof = "order" ->
           { Content("REJECT", ConfNum(Num(9)), "Unconvinced", PyAbsent) }
      [] prof = "nodes" ->
           { Raise("timeout"), Content("APPROVE", ConfAbsent, "Convinced", PyAbsent) }
      [] prof = "first" ->
           { Content("REJECT", ConfNum(Num(9)), "Unconvinced", PyAbsent) }
      [] prof = "second" ->
           { Content("APPROVE", ConfAbsent, "Convinced", PyAbsent) }
      [] prof = "revote" ->
           { Prose,
             Content("REJECT", ConfAbsent, "Unconvinced", PyAbsent),
             Content("abstain", ConfAbsent, "Unsure", PyAbsent),
             Content("", ConfNum(Num(MaxRawConf)), "Sure", PyAbsent),
             Content("APPROVE", ConfStr, "Convinced", PyAbsent) }
      [] OTHER -> { Raise("timeout") }

(***************************************************************************)
(* The workflow: DAOProposalGenerator.run and the LangGraph nodes.         *)
(***************************************************************************)
NoVote ==
    [validator_id |-> "", role |-> << >>, vote |-> "", confidence |-> 0,
     reasoning |-> "", concerns |-> PyAbsent]
\* debate_summary: one paragraph per debate argument, in list order
debate_summary(debate_args) ==
    [a \in 1 .. Len(debate_args) |->
        << debate_args[a].validator_id, debate_args[a].side,
           debate_args[a].original_confidence, debate_args[a].argument >>]

\* a coroutine awaiting its oracle call; summary is the debate text of its prompt
Awaiting(original, summary) ==
    [state |-> "awaiting", response |-> Prose, original_vote |-> original,
     summary |-> summary, result |-> NoVote]
DebateIdle ==
    [active |-> FALSE, minority_side |-> "", minority_validators |-> << >>,
     next |-> 0, inflight |-> FALSE, debate_arguments |-> << >>]
NoResult ==
    [returned |-> FALSE, proposal |-> NoProposal, initial_votes |-> << >>,
     debate_arguments |-> << >>, final_votes |-> << >>, decision |-> "",
     weighted_score |-> FloatZero, fungible |-> "",
     voting_summary |-> [initial_approve |-> 0, initial_reject |-> 0,
                         final_approve |-> 0, final_reject |-> 0,
                         votes_changed |-> 0]]

\* no other run is in flight
NoRun == [pc |-> "none"]

\* the state of a run that has not taken its first step: initial_state of run()
Fresh(prof, request) ==
    [pc |-> "generate_proposal", proposal_input |-> request,
     generated_proposal |-> NoProposal, validator_votes |-> << >>,
     debate_arguments |-> << >>, final_votes |-> << >>, final_decision |-> "",
     weighted_score |-> FloatZero, fungible |-> "", vote_tasks |-> << >>,
     final_vote_tasks |-> << >>, arrival |-> << >>, debate |-> DebateIdle,
     calls |-> [draft |-> 0, review |-> 0, rebuttal |-> 0, rebuttal_failed |-> 0,
                revote |-> 0],
     result |-> NoResult, profile |-> prof]

\* initial_state of run()
InitWith(prof) ==
    /\ profile = prof
    /\ variant \in {"main", "ml"}
    /\ pc = "generate_proposal"
    /\ proposal_input \in Requests(prof)
    /\ generated_proposal = NoProposal
    /\ validator_votes = << >>
    /\ debate_arguments = << >>
    /\ final_votes = << >>
    /\ final_decision = ""
    /\ weighted_score = FloatZero
    /\ fungible = ""
    /\ vote_tasks = << >>
    /\ final_vote_tasks = << >>
    /\ arrival = << >>
    /\ debate = DebateIdle
    /\ calls = [draft |-> 0, review |-> 0, rebuttal |-> 0, rebuttal_failed |-> 0,
                 revote |-> 0]
    /\ result = NoResult
    /\ suspended = NoRun

Init == \E prof \in Profiles : InitWith(prof)

\* the runs in which the completion order of the concurrent calls is observed
InitOrder == InitWith("order")

\* the runs over requests and drafts with and without monetary words
InitFungibility == InitWith("fungibility")

\* the VoteSets of n well-formed votes, one per reviewer in configuration order
VoteSets(var, n) ==
    { [i \in 1 .. n |-> get_validator_vote(var, ReviewerIds[i], r[i])] :
        r \in [1 .. n -> {PlainApprove, PlainReject}] }

\* the state handed to _debate_round_node, for a VoteSet of any length up to MaxVotes
InitNodes ==
    /\ profile = "nodes"
    /\ variant \in {"main", "ml"}
    /\ pc = "debate_round"
    /\ proposal_input = Request("Treasury tool")
    /\ generated_proposal = Draft("Board", "Charts", << "Build" >>, "None")
    /\ \E n \in 0 .. MaxVotes : validator_votes \in VoteSets(variant, n)
    /\ debate_arguments = << >>
    /\ final_votes = << >>
    /\ final_decision = ""
    /\ weighted_score = FloatZero
    /\ fungible = ""
    /\ vote_tasks = << >>
    /\ final_vote_tasks = << >>
    /\ arrival = << >>
    /\ debate = DebateIdle
    /\ calls = [draft |-> 0, review |-> 0, rebuttal |-> 0, rebuttal_failed |-> 0,
                 revote |-> 0]
    /\ result = NoResult
    /\ suspended = NoRun

\* the completion order of the current gather, recorded in the runs that observe it
Observe(arr, i) == IF profile = "order" THEN Append(arr, i) ELSE arr

\* a join that would return at the first completion (what gather does not do)
AnyDone(ts) == \E i \in 1 .. Len(ts) : ts[i].state = "done"

AllDone(ts) == \A i \in 1 .. Len(ts) : ts[i].state = "done"

\* joins that gather is not: one that keeps only the calls that did not fail,
\* one that returns the results in completion order, one that reverses them
GatherSuccessful(ts, arr) ==
    LET kept == SelectSeq(ts, LAMBDA t : t.response.kind # "raise")
    IN  [i \in 1 .. Len(kept) |-> kept[i].result]
GatherAsCompleted(ts, arr) == [i \in 1 .. Len(ts) |-> ts[arr[i]].result]
GatherReversed(ts, arr) == [i \in 1 .. Len(ts) |-> ts[Len(ts) + 1 - i].result]

\* asyncio.gather: the results in the order of the awaitables passed in
Gather(ts, arr) == [i \in 1 .. Len(ts) |-> ts[i].result]

\* a graph whose edge out of parallel_initial_vote leads to final_vote (what
\* _build_workflow does not build)
EdgeSkippingDebate(node) ==
    CASE node = "generate_proposal" -> "parallel_initial_vote"
      [] node = "parallel_initial_vote" -> "final_vote"
      [] node = "debate_round" -> "final_vote"
      [] node = "final_vote" -> "determine_fungibility"
      [] node = "determine_fungibility" -> "END"

\* workflow.add_edge: the node that runs when node has returned
Edge(node) ==
    CASE node = "generate_proposal" -> "parallel_initial_vote"
      [] node = "parallel_initial_vote" -> "debate_round"
      [] node = "debate_round" -> "final_vote"
      [] node = "final_vote" -> "determine_fungibility"
      [] node = "determine_fungibility" -> "END"

\* a guard that would never see the draft failure (what the nodes do not do)
DraftNeverFailed(proposal) == FALSE

\* "error" in proposal
DraftFailed(proposal) == proposal.kind = "error"

\* _generate_proposal_node
GenerateProposal ==
    /\ pc = "generate_proposal"
    /\ \E d \in Drafts(profile) : generated_proposal' = d
    /\ calls' = [calls EXCEPT !.draft = @ + 1]
    /\ pc' = Edge("generate_proposal")
    /\ UNCHANGED suspended
    /\ UNCHANGED << variant, proposal_input, validator_votes, debate_arguments,
                    final_votes, final_decision, weighted_score, fungible,
                    vote_tasks, final_vote_tasks, arrival, debate, result, profile >>

\* _parallel_initial_vote_node up to the await of asyncio.gather
InitialVoteStart ==
    /\ pc = "parallel_initial_vote"
    /\ vote_tasks = << >>
    /\ IF DraftFailed(generated_proposal)
       THEN /\ validator_votes' = << >>
            /\ pc' = Edge("parallel_initial_vote")
            /\ UNCHANGED << vote_tasks, calls >>
       ELSE /\ vote_tasks' = [i \in 1 .. N |-> Awaiting(NoVote, << >>)]
            /\ calls' = [calls EXCEPT !.review = @ + N]
            /\ UNCHANGED << validator_votes, pc >>
    /\ UNCHANGED suspended
    /\ UNCHANGED << variant, proposal_input, generated_proposal, debate_arguments,
                    final_votes, final_decision, weighted_score, fungible,
                    final_vote_tasks, arrival, debate, result, profile >>

\* one get_validator_vote coroutine resumes from llm.ainvoke and returns
ReviewReturns(i, resp) ==
    /\ pc = "parallel_initial_vote"
    /\ vote_tasks # << >>
    /\ vote_tasks[i].state = "awaiting"
    /\ vote_tasks' = [vote_tasks EXCEPT ![i] =
           [state |-> "done", response |-> resp, original_vote |-> NoVote,
            summary |-> << >>,
            result |-> get_validator_vote(variant, ReviewerIds[i], resp)]]
    /\ arrival' = Observe(arrival, i)
    /\ UNCHANGED suspended
    /\ UNCHANGED << variant, pc, proposal_input, generated_proposal, validator_votes,
                    debate_arguments, final_votes, final_decision, weighted_score,
                    fungible, final_vote_tasks, debate, calls, result, profile >>

\* asyncio.gather returns; state["validator_votes"] = votes
InitialVoteJoin ==
    /\ pc = "parallel_initial_vote"
    /\ vote_tasks # << >>
    /\ AllDone(vote_tasks)
    /\ validator_votes' = Gather(vote_tasks, arrival)
    /\ pc' = Edge("parallel_initial_vote")
    /\ UNCHANGED suspended
    /\ UNCHANGED << variant, proposal_input, generated_proposal, debate_arguments,
                    final_votes, final_decision, weighted_score, fungible,
                    vote_tasks, final_vote_tasks, arrival, debate, calls, result,
                    profile >>

\* all_concerns.extend(v["concerns"]) raises TypeError on a value that is no iterable
ExtendRaises(votes) == \E i \in 1 .. Len(votes) : votes[i].concerns.py = "None"

\* a selection that would always name APPROVE (what _debate_round_node does not do)
MinoritySideAlwaysApprove(votes) == "APPROVE"

\* "REJECT" if approve_count > reject_count else "APPROVE"
MinoritySide(votes) ==
    LET approve_count == CountVotes(votes, "APPROVE")
        reject_count == Len(votes) - approve_count
    IN  IF approve_count > reject_count THEN "REJECT" ELSE "APPROVE"

\* [v for v in votes if v["vote"] == minority_side]
MinorityValidators(votes) == VotesOf(votes, MinoritySide(votes))

\* a guard without the tie check (what _debate_round_node does not do)
DebateHeldIgnoringTies(votes) ==
    ~ \/ votes = << >>
      \/ MinorityValidators(votes) = << >>
      \/ Len(MinorityValidators(votes)) = Len(votes)

\* none of the early returns of _debate_round_node is taken
DebateHeld(votes) ==
    LET approve_count == CountVotes(votes, "APPROVE")
        reject_count == Len(votes) - approve_count
    IN  ~ \/ votes = << >>
          \/ approve_count = reject_count
          \/ MinorityValidators(votes) = << >>
          \/ Len(MinorityValidators(votes)) = Len(votes)

\* _debate_round_node up to its loop
DebateRoundStart ==
    /\ pc = "debate_round"
    /\ ~debate.active
    /\ LET votes == validator_votes
           minority_side == MinoritySide(votes)
           minority_validators == MinorityValidators(votes)
       IN  IF ~DebateHeld(votes)
           THEN /\ debate_arguments' = << >>
                /\ pc' = Edge("debate_round")
                /\ UNCHANGED debate
           ELSE IF ExtendRaises(votes)
           THEN /\ pc' = "raised"
                /\ UNCHANGED << debate, debate_arguments >>
           ELSE /\ debate' = [active |-> TRUE, minority_side |-> minority_side,
                              minority_validators |-> minority_validators,
                              next |-> 1, inflight |-> FALSE,
                              debate_arguments |-> << >>]
                /\ UNCHANGED << pc, debate_arguments >>
    /\ UNCHANGED suspended
    /\ UNCHANGED << variant, proposal_input, generated_proposal, validator_votes,
                    final_votes, final_decision, weighted_score, fungible,
                    vote_tasks, final_vote_tasks, arrival, calls, result, profile >>

\* the loop reaches await llm.ainvoke for the next minority validator
RebuttalCall ==
    /\ pc = "debate_round"
    /\ debate.active
    /\ ~debate.inflight
    /\ debate.next <= Len(debate.minority_validators)
    /\ debate' = [debate EXCEPT !.inflight = TRUE]
    /\ calls' = [calls EXCEPT !.rebuttal = @ + 1]
    /\ UNCHANGED suspended
    /\ UNCHANGED << variant, pc, proposal_input, generated_proposal, validator_votes,
                    debate_arguments, final_votes, final_decision, weighted_score,
                    fungible, vote_tasks, final_vote_tasks, arrival, result, profile >>

\* the entry the loop body appends for one minority validator
DebateEntry(var, validator, minority_side, resp) ==
    IF resp.kind # "raise"
    THEN << [validator_id |-> validator.validator_id,
             side |-> IF var = "main" THEN minority_side ELSE validator.vote,
             argument |-> Strip(resp.reasoning),
             original_confidence |-> validator.confidence] >>
    ELSE IF var = "main" THEN << >>
    ELSE << [validator_id |-> validator.validator_id,
             side |-> validator.vote,
             argument |-> "Error generating argument: " \o resp.error,
             original_confidence |-> validator.confidence] >>

\* the awaited rebuttal call returns or raises
RebuttalReturns(resp) ==
    /\ pc = "debate_round"
    /\ debate.active
    /\ debate.inflight
    /\ debate' = [debate EXCEPT
           !.inflight = FALSE,
           !.next = @ + 1,
           !.debate_arguments = @ \o DebateEntry(variant,
                                    debate.minority_validators[debate.next],
                                    debate.minority_side, resp)]
    /\ calls' = [calls EXCEPT !.rebuttal_failed =
                     IF resp.kind = "raise" THEN @ + 1 ELSE @]
    /\ UNCHANGED suspended
    /\ UNCHANGED << variant, pc, proposal_input, generated_proposal, validator_votes,
                    debate_arguments, final_votes, final_decision, weighted_score,
                    fungible, vote_tasks, final_vote_tasks, arrival, result, profile >>

\* the loop is exhausted: state["debate_arguments"] = debate_arguments
DebateRoundEnd ==
    /\ pc = "debate_round"
    /\ debate.active
    /\ ~debate.inflight
    /\ debate.next > Len(debate.minority_validators)
    /\ debate_arguments' = debate.debate_arguments
    /\ debate' = DebateIdle
    /\ pc' = Edge("debate_round")
    /\ UNCHANGED suspended
    /\ UNCHANGED << variant, proposal_input, generated_proposal, validator_votes,
                    final_votes, final_decision, weighted_score, fungible,
                    vote_tasks, final_vote_tasks, arrival, calls, result, profile >>

\* the score the draft-failure fast path stores
SentinelScore(var) == IF var = "main" THEN FloatOfInt(-10) ELSE FloatZero

\* what the no-debate path stores as state["weighted_score"]
NoDebateScore(var, ws) == IF var = "main" THEN ws ELSE Round2(ws)

\* a guard that would never skip the re-vote (what _final_vote_node does not do)
NoDebateNever(debate_args) == FALSE

\* not debate_args
NoDebate(debate_args) == debate_args = << >>

\* a re-vote of the minority members only (what _final_vote_node does not do)
RevoteMinorityOnly(votes) == MinorityValidators(votes)

\* the votes get_final_vote is called for: [get_final_vote(v) for v in votes]
RevoteTargets(votes) == votes

\* _final_vote_node up to the await of asyncio.gather
FinalVoteStart ==
    /\ pc = "final_vote"
    /\ final_vote_tasks = << >>
    /\ LET votes == validator_votes
           debate_args == debate_arguments
       IN  IF votes = << >>
           THEN /\ final_votes' = << >>
                /\ final_decision' = "REJECTED"
                /\ weighted_score' = SentinelScore(variant)
                /\ pc' = Edge("final_vote")
                /\ UNCHANGED << final_vote_tasks, calls, arrival >>
           ELSE IF NoDebate(debate_args)
           THEN /\ final_votes' = votes
                /\ weighted_score' = NoDebateScore(variant, WeightedSum(votes))
                /\ final_decision' = Decide(WeightedSum(votes))
                /\ pc' = Edge("final_vote")
                /\ UNCHANGED << final_vote_tasks, calls, arrival >>
           ELSE /\ final_vote_tasks' =
                       [i \in 1 .. Len(RevoteTargets(votes)) |->
                           Awaiting(RevoteTargets(votes)[i], debate_summary(debate_args))]
                /\ calls' = [calls EXCEPT !.revote = @ + Len(RevoteTargets(votes))]
                /\ arrival' = << >>
                /\ UNCHANGED << final_votes, final_decision, weighted_score, pc >>
    /\ UNCHANGED suspended
    /\ UNCHANGED << variant, proposal_input, generated_proposal, validator_votes,
                    debate_arguments, fungible, vote_tasks, debate, result, profile >>

\* one get_final_vote coroutine resumes from llm.ainvoke and returns
RevoteReturns(i, resp) ==
    /\ pc = "final_vote"
    /\ final_vote_tasks # << >>
    /\ final_vote_tasks[i].state = "awaiting"
    /\ final_vote_tasks' = [final_vote_tasks EXCEPT ![i] =
           [state |-> "done", response |-> resp,
            original_vote |-> final_vote_tasks[i].original_vote,
            summary |-> final_vote_tasks[i].summary,
            result |-> get_final_vote(variant, final_vote_tasks[i].original_vote, resp)]]
    /\ arrival' = Observe(arrival, i)
    /\ UNCHANGED suspended
    /\ UNCHANGED << variant, pc, proposal_input, generated_proposal, validator_votes,
                    debate_arguments, final_votes, final_decision, weighted_score,
                    fungible, vote_tasks, debate, calls, result, profile >>

\* asyncio.gather returns; the score and the decision are computed
FinalVoteJoin ==
    /\ pc = "final_vote"
    /\ final_vote_tasks # << >>
    /\ AllDone(final_vote_tasks)
    /\ LET votes == Gather(final_vote_tasks, arrival)
           ws == WeightedSum(votes)
       IN  /\ final_votes' = votes
           /\ weighted_score' = Round2(ws)
           /\ final_decision' = Decide(ws)
    /\ pc' = Edge("final_vote")
    /\ UNCHANGED suspended
    /\ UNCHANGED << variant, proposal_input, generated_proposal, validator_votes,
                    debate_arguments, fungible, vote_tasks, final_vote_tasks, arrival,
                    debate, calls, result, profile >>

monetary_keywords ==
    { "fund", "reward", "grant", "payment", "budget", "payout", "compensation",
      "bounty", "incentive", "stipend", "cost", "fee", "expense", "allocation",
      "disburse",
      "token", "stablecoin", "pyusd", "usdc", "dai", "eth", "matic", "coin", "asset",
      "nft", "share", "crypto",
      "treasury", "capital", "fiat", "vault", "reserve", "yield", "pool", "swap",
      "exchange", "loan", "borrow",
      "value transfer", "escrow", "transfer", "send", "receive" }

\* the search text of _determine_fungibility_node
SearchText(proposal, input_data) ==
    JoinWith(" ", << Lower(proposal.title), Lower(proposal.abstract),
                     Lower(proposal.motivation), Lower(StrOfList(proposal.actions)),
                     Lower(proposal.expected_impact), Lower(proposal.requested_funds),
                     Lower(input_data.challenge_text) >>)

\* any(keyword in text for keyword in monetary_keywords), tabulated once for
\* the proposals and requests of the model
AllProfiles ==
    Profiles \cup {"order", "nodes", "fungibility", "first", "second", "null", "flaky",
                    "revote"}
HasMonetary ==
    [proposal \in UNION { Drafts(prof) : prof \in AllProfiles },
     input_data \in UNION { Requests(prof) : prof \in AllProfiles } |->
        \E keyword \in monetary_keywords :
            Contains(SearchText(proposal, input_data), keyword)]

\* a classification by the text alone (what _determine_fungibility_node does not do)
ClassifyIgnoringDecision(decision, proposal, input_data) ==
    IF proposal.kind = "empty" \/ DraftFailed(proposal) THEN "no"
    ELSE IF HasMonetary[proposal, input_data] THEN "yes" ELSE "no"

Classify(decision, proposal, input_data) ==
    IF decision = "REJECTED" \/ proposal.kind = "empty" \/ DraftFailed(proposal)
    THEN "no"
    ELSE IF HasMonetary[proposal, input_data] THEN "yes" ELSE "no"

\* _determine_fungibility_node
DetermineFungibility ==
    /\ pc = "determine_fungibility"
    /\ fungible' = Classify(final_decision, generated_proposal, proposal_input)
    /\ pc' = Edge("determine_fungibility")
    /\ UNCHANGED suspended
    /\ UNCHANGED << variant, proposal_input, generated_proposal, validator_votes,
                    debate_arguments, final_votes, final_decision, weighted_score,
                    vote_tasks, final_vote_tasks, arrival, debate, calls, result,
                    profile >>

\* a count of every vote that differs in any field (what run() does not count)
VotesChangedInAnyField(var, initial, final) ==
    Cardinality({ i \in 1 .. Len(final) : final[i] # initial[i] })

\* votes_changed of run()
VotesChanged(var, initial, final) ==
    Cardinality({ i \in 1 .. Len(final) :
        /\ var = "main" => i <= Len(initial)
        /\ final[i].vote # initial[i].vote })

\* a result that would report the re-voted VoteSet as the initial one (what run()
\* does not return)
RunResultOverwritingInitial ==
    [returned |-> TRUE,
     proposal |-> generated_proposal,
     initial_votes |-> final_votes,
     debate_arguments |-> debate_arguments,
     final_votes |-> final_votes,
     decision |-> final_decision,
     weighted_score |-> weighted_score,
     fungible |-> fungible,
     voting_summary |->
        [initial_approve |-> CountVotes(final_votes, "APPROVE"),
         initial_reject |-> CountVotes(final_votes, "REJECT"),
         final_approve |-> CountVotes(final_votes, "APPROVE"),
         final_reject |-> CountVotes(final_votes, "REJECT"),
         votes_changed |-> 0]]

\* the dict run() returns
RunResult ==
    [returned |-> TRUE,
     proposal |-> generated_proposal,
     initial_votes |-> validator_votes,
     debate_arguments |-> debate_arguments,
     final_votes |-> final_votes,
     decision |-> final_decision,
     weighted_score |-> weighted_score,
     fungible |-> fungible,
     voting_summary |->
        [initial_approve |-> CountVotes(validator_votes, "APPROVE"),
         initial_reject |-> CountVotes(validator_votes, "REJECT"),
         final_approve |-> CountVotes(final_votes, "APPROVE"),
         final_reject |-> CountVotes(final_votes, "REJECT"),
         votes_changed |-> VotesChanged(variant, validator_votes, final_votes)]]

\* workflow.ainvoke has returned: run() builds its result
Return ==
    /\ pc = "END"
    /\ result' = RunResult
    /\ pc' = "returned"
    /\ UNCHANGED suspended
    /\ UNCHANGED << variant, proposal_input, generated_proposal, validator_votes,
                    debate_arguments, final_votes, final_decision, weighted_score,
                    fungible, vote_tasks, final_vote_tasks, arrival, debate, calls,
                    profile >>

Next ==
    \/ GenerateProposal
    \/ InitialVoteStart
    \/ \E i \in 1 .. Len(vote_tasks) : \E resp \in ReviewResponses(profile) :
            ReviewReturns(i, resp)
    \/ InitialVoteJoin
    \/ DebateRoundStart
    \/ RebuttalCall
    \/ \E resp \in RebuttalResponses(profile) : RebuttalReturns(resp)
    \/ DebateRoundEnd
    \/ FinalVoteStart
    \/ \E i \in 1 .. Len(final_vote_tasks) : \E resp \in RevoteResponses(profile) :
            RevoteReturns(i, resp)
    \/ FinalVoteJoin
    \/ DetermineFungibility
    \/ Return

Spec == Init /\ [][Next]_vars

SpecOrder == InitOrder /\ [][Next]_vars

SpecFungibility == InitFungibility /\ [][Next]_vars

\* the nodes from debate_round on
NextNodes ==
    \/ DebateRoundStart
    \/ RebuttalCall
    \/ \E resp \in RebuttalResponses(profile) : RebuttalReturns(resp)
    \/ DebateRoundEnd
    \/ FinalVoteStart
    \/ \E i \in 1 .. Len(final_vote_tasks) : \E resp \in RevoteResponses(profile) :
            RevoteReturns(i, resp)
    \/ FinalVoteJoin
    \/ DetermineFungibility
    \/ Return

SpecNodes == InitNodes /\ [][NextNodes]_vars

\* two requests handled together by the one generator of the server: the first
\* run is about to take its first step, the second has been accepted and waits
InitConcurrent ==
    /\ profile = "first"
    /\ variant \in {"main", "ml"}
    /\ pc = "generate_proposal"
    /\ proposal_input \in Requests("first")
    /\ generated_proposal = NoProposal
    /\ validator_votes = << >>
    /\ debate_arguments = << >>
    /\ final_votes = << >>
    /\ final_decision = ""
    /\ weighted_score = FloatZero
    /\ fungible = ""
    /\ vote_tasks = << >>
    /\ final_vote_tasks = << >>
    /\ arrival = << >>
    /\ debate = DebateIdle
    /\ calls = [draft |-> 0, review |-> 0, rebuttal |-> 0, rebuttal_failed |-> 0,
                 revote |-> 0]
    /\ result = NoResult
    /\ \E request \in Requests("second") : suspended = Fresh("second", request)

\* the state of the run that is executing: the state dict of its workflow and
\* the frames of its coroutines
RunState ==
    [pc |-> pc, proposal_input |-> proposal_input,
     generated_proposal |-> generated_proposal, validator_votes |-> validator_votes,
     debate_arguments |-> debate_arguments, final_votes |-> final_votes,
     final_decision |-> final_decision, weighted_score |-> weighted_score,
     fungible |-> fungible, vote_tasks |-> vote_tasks,
     final_vote_tasks |-> final_vote_tasks, arrival |-> arrival, debate |-> debate,
     calls |-> calls, result |-> result, profile |-> profile]

\* a generator that would keep the votes of the run on itself (what
\* DAOProposalGenerator does not do)
VotesOnInstance == {"validator_votes"}

\* the keys of the workflow state that live on the generator instance and not in
\* the run's own dict: none (the instance holds structured_llm, workflow and
\* validator_roles, all set once in __init__)
OnInstance == {}

\* what a resuming run finds under a key: the instance's value if the key lives
\* on the instance, else its own
Found(key, instance_value, own_value) ==
    IF key \in OnInstance THEN instance_value ELSE own_value

\* the event loop leaves the executing run at an await and resumes the other
Switch ==
    /\ suspended # NoRun
    /\ suspended' = RunState
    /\ pc' = suspended.pc
    /\ proposal_input' =
           Found("proposal_input", proposal_input, suspended.proposal_input)
    /\ generated_proposal' =
           Found("generated_proposal", generated_proposal, suspended.generated_proposal)
    /\ validator_votes' =
           Found("validator_votes", validator_votes, suspended.validator_votes)
    /\ debate_arguments' =
           Found("debate_arguments", debate_arguments, suspended.debate_arguments)
    /\ final_votes' = Found("final_votes", final_votes, suspended.final_votes)
    /\ final_decision' =
           Found("final_decision", final_decision, suspended.final_decision)
    /\ weighted_score' =
           Found("weighted_score", weighted_score, suspended.weighted_score)
    /\ fungible' = Found("fungible", fungible, suspended.fungible)
    /\ vote_tasks' = suspended.vote_tasks
    /\ final_vote_tasks' = suspended.final_vote_tasks
    /\ arrival' = suspended.arrival
    /\ debate' = suspended.debate
    /\ calls' = suspended.calls
    /\ result' = suspended.result
    /\ profile' = suspended.profile
    /\ UNCHANGED variant

\* the steps of a run whose panel answers as ReviewAnswers says
NextPanel ==
    \/ GenerateProposal
    \/ InitialVoteStart
    \/ \E i \in 1 .. Len(vote_tasks) : \E resp \in ReviewAnswers(profile, i) :
            ReviewReturns(i, resp)
    \/ InitialVoteJoin
    \/ DebateRoundStart
    \/ RebuttalCall
    \/ \E resp \in RebuttalResponses(profile) : RebuttalReturns(resp)
    \/ DebateRoundEnd
    \/ FinalVoteStart
    \/ \E i \in 1 .. Len(final_vote_tasks) : \E resp \in RevoteResponses(profile) :
            RevoteReturns(i, resp)
    \/ FinalVoteJoin
    \/ DetermineFungibility
    \/ Return

NextConcurrent == NextPanel \/ Switch

SpecConcurrent == InitConcurrent /\ [][NextConcurrent]_vars

\* the runs whose re-vote answers are well-formed, partial or unrecognised
InitRevote == InitWith("revote")

SpecRevote == InitRevote /\ [][NextPanel]_vars

\* the runs over which termination is examined
InitFair == \E prof \in {"first", "second", "null", "flaky"} : InitWith(prof)

\* the runs in which every oracle call made eventually returns or raises and the
\* event loop eventually resumes every coroutine that can proceed: a step that
\* is possible is eventually taken
SpecFair == InitFair /\ [][NextPanel]_vars /\ WF_vars(NextPanel)

(***************************************************************************)
(* Properties.                                                             *)
(***************************************************************************)
PastInitialVote ==
    {"debate_round", "final_vote", "determine_fungibility", "END", "returned", "raised"}
PastFinalVote == {"determine_fungibility", "END", "returned"}

DraftSucceeded == generated_proposal.kind = "proposal"

\* the positions of the calls of a gather that failed
Failures(ts) ==
    { i \in 1 .. Len(ts) : ts[i].state = "done" /\ ts[i].response.kind = "raise" }

OneVotePerReviewer(votes) ==
    /\ Len(votes) = N
    /\ \A r \in 1 .. N :
          Cardinality({ i \in 1 .. Len(votes) : votes[i].validator_id = ReviewerIds[r] }) = 1

C2_ApprovedIffSumPositive ==
    (result.returned /\ result.final_votes # << >>) =>
        (result.decision = "APPROVED" <=> ExactPositive(WeightedSum(result.final_votes)))

\* a returned run whose final votes cancel exactly and whose decision is APPROVED
C2_TieApproved ==
    /\ result.returned
    /\ result.final_votes # << >>
    /\ WeightedSum(result.final_votes).k = 0
    /\ result.decision = "APPROVED"

ConfidenceIntegerInRange(v) ==
    /\ IsInt(v.confidence)
    /\ Num(1) <= v.confidence
    /\ v.confidence <= Num(10)

\* C3: every vote of the initial VoteSet and of the final VoteSet has an integer
\* confidence in [1,10], whatever raw confidence the oracle returned.
C3_ConfidenceIntegerInRange ==
    /\ \A i \in 1 .. Len(validator_votes) : ConfidenceIntegerInRange(validator_votes[i])
    /\ \A i \in 1 .. Len(final_votes) : ConfidenceIntegerInRange(final_votes[i])

\* a returned run whose final VoteSet holds a confidence that is no integer
C3_FractionalConfidence ==
    /\ result.returned
    /\ \E i \in 1 .. Len(result.final_votes) : ~IsInt(result.final_votes[i].confidence)

\* the VoteSets the responses determine, position by position
VotesFromResponses ==
    [i \in 1 .. N |-> get_validator_vote(variant, ReviewerIds[i], vote_tasks[i].response)]
FinalFromResponses ==
    [i \in 1 .. N |->
        get_final_vote(variant, validator_votes[i], final_vote_tasks[i].response)]

\* C4: the VoteSet of a voting round is a function of the per-reviewer responses
\* alone: whatever the order in which the N calls completed or failed, position i
\* holds the vote the i-th configured reviewer's response determines, and the
\* weighted score and the decision are those of that VoteSet.
C4_OrderIndependent ==
    /\ (pc \in PastInitialVote /\ vote_tasks # << >>) =>
          validator_votes = VotesFromResponses
    /\ (pc \in PastFinalVote /\ final_vote_tasks # << >>) =>
          /\ final_votes = FinalFromResponses
          /\ weighted_score = Round2(WeightedSum(FinalFromResponses))
          /\ final_decision = Decide(WeightedSum(FinalFromResponses))

\* a returned run whose re-vote calls completed in the order 5, 3, 1, 4, 2 after
\* an Initial Vote round in which a call failed
C4_Witness ==
    /\ result.returned
    /\ final_vote_tasks # << >>
    /\ arrival = << 5, 3, 1, 4, 2 >>
    /\ Failures(vote_tasks) # {}

SameReviewers(initial, final) ==
    /\ Len(final) = Len(initial)
    /\ \A i \in 1 .. Len(final) : final[i].validator_id = initial[i].validator_id

\* C5: once the Final Vote stage is over, final_votes[i] and initial_votes[i]
\* carry the same reviewer id for every index i, with or without a debate and
\* whichever re-vote calls failed; the same holds of the returned result.
C5_SameReviewerPerIndex ==
    /\ pc \in PastFinalVote => SameReviewers(validator_votes, final_votes)
    /\ result.returned => SameReviewers(result.initial_votes, result.final_votes)

\* a returned run with a re-vote in which one call failed and another changed
\* its reviewer's decision
C5_Witness ==
    /\ result.returned
    /\ Failures(final_vote_tasks) # {}
    /\ \E j \in 1 .. Len(result.final_votes) :
          result.final_votes[j].vote # result.initial_votes[j].vote

\* C6: no failed reviewer-oracle call and no malformed oracle output makes an
\* exception leave run().
C6_NoExceptionLeavesRun == pc # "raised"

\* a run of the JSON copy, its draft successful, that left run() by an exception
\* raised in the Debate round
C6_RunRaised ==
    /\ pc = "raised"
    /\ DraftSucceeded
    /\ ~result.returned
    /\ ExtendRaises(validator_votes)

\* the initial-round slot of reviewer i holds a REJECT vote that carries the
\* error message, with this confidence and this single concern
FailureVote(i, confidence, concern) ==
    LET v == validator_votes[i]
    IN  /\ v.validator_id = ReviewerIds[i]
        /\ v.vote = "REJECT"
        /\ v.confidence = Num(confidence)
        /\ Contains(v.reasoning, vote_tasks[i].response.error)
        /\ v.concerns = PyList(<< concern >>)

\* C7 as stated: a reviewer whose call failed in the Initial Vote round holds a
\* REJECT vote with confidence 3, reasoning carrying the error message, and the
\* single concern "Technical error in voting process".
C7_FailureVoteAsStated ==
    pc \in PastInitialVote =>
        \A i \in Failures(vote_tasks) :
            FailureVote(i, 3, "Technical error in voting process")

\* C7, amended: a reviewer whose call failed in the Initial Vote round holds a
\* REJECT vote whose reasoning carries the error message; in src/main.py its
\* confidence is 3 and its single concern "Technical error in voting process",
\* in src/ml-model/main.py its confidence is 1 and its single concern
\* "Failed to process vote".
C7_FailureVotePerCopy ==
    pc \in PastInitialVote =>
        \A i \in Failures(vote_tasks) :
            IF variant = "main"
            THEN FailureVote(i, 3, "Technical error in voting process")
            ELSE FailureVote(i, 1, "Failed to process vote")

\* a returned run of the JSON copy in which a review call failed
C7_Witness ==
    /\ result.returned
    /\ variant = "ml"
    /\ Failures(vote_tasks) # {}
    /\ \E i \in Failures(vote_tasks) : result.initial_votes[i].confidence = Num(1)

\* C8: a failed call of a voting round leaves its siblings alone: while the
\* round runs every completed call holds the vote its own response determines,
\* and once a round with a failed call has joined, every call of it has
\* completed and every slot holds the vote that reviewer's own response
\* determines.
C8_SiblingsUnaffected ==
    /\ pc = "parallel_initial_vote" =>
          \A j \in 1 .. Len(vote_tasks) :
              vote_tasks[j].state = "done" =>
                  vote_tasks[j].result =
                      get_validator_vote(variant, ReviewerIds[j], vote_tasks[j].response)
    /\ (pc \in PastInitialVote /\ Failures(vote_tasks) # {}) =>
          \A j \in 1 .. N :
              /\ vote_tasks[j].state = "done"
              /\ validator_votes[j] =
                     get_validator_vote(variant, ReviewerIds[j], vote_tasks[j].response)
    /\ (pc \in PastFinalVote /\ Failures(final_vote_tasks) # {}) =>
          \A j \in 1 .. N :
              /\ final_vote_tasks[j].state = "done"
              /\ final_votes[j] =
                     get_final_vote(variant, validator_votes[j],
                                    final_vote_tasks[j].response)

\* a returned run in which only the second reviewer's review call failed, the
\* fourth reviewer approved, and a re-vote call failed
C8_Witness ==
    /\ result.returned
    /\ Failures(vote_tasks) = {2}
    /\ result.initial_votes[4].vote = "APPROVE"
    /\ Failures(final_vote_tasks) # {}

FloatNegative(x) == FloatPositive(FloatNeg(x))

\* C9: if the draft failed, the returned result has decision REJECTED, fungible
\* "no" and a negative weighted score, whatever the request text.
C9_DraftFailureResult ==
    (result.returned /\ result.proposal.kind = "error") =>
        /\ result.decision = "REJECTED"
        /\ result.fungible = "no"
        /\ FloatNegative(result.weighted_score)

\* a returned run whose draft failed, on a request naming the treasury, whose
\* weighted score is 0.0
C9_ZeroSentinel ==
    /\ result.returned
    /\ result.proposal.kind = "error"
    /\ Contains(Lower(proposal_input.challenge_text), "treasury")
    /\ result.decision = "REJECTED"
    /\ result.weighted_score = FloatZero

\* C10: if the draft failed, no review, rebuttal or re-vote call is ever issued,
\* the three lists stay empty, and every count of the returned voting summary
\* is 0.
C10_DraftFailureSkipsVoting ==
    generated_proposal.kind = "error" =>
        /\ calls.review = 0 /\ calls.rebuttal = 0 /\ calls.revote = 0
        /\ vote_tasks = << >> /\ final_vote_tasks = << >> /\ ~debate.active
        /\ validator_votes = << >> /\ debate_arguments = << >> /\ final_votes = << >>
        /\ result.returned =>
              /\ result.initial_votes = << >>
              /\ result.debate_arguments = << >>
              /\ result.final_votes = << >>
              /\ result.voting_summary =
                     [initial_approve |-> 0, initial_reject |-> 0,
                      final_approve |-> 0, final_reject |-> 0, votes_changed |-> 0]

\* a returned run whose draft call was issued and failed
C10_Witness ==
    /\ result.returned
    /\ result.proposal.kind = "error"
    /\ calls.draft = 1
    /\ calls.review = 0

PastDebate == {"final_vote", "determine_fungibility", "END", "returned"}

Tied(votes) == 2 * CountVotes(votes, "APPROVE") = Len(votes)
Unanimous(votes) ==
    \A i \in 1 .. Len(votes) : \A j \in 1 .. Len(votes) : votes[i].vote = votes[j].vote

\* C11: if the initial VoteSet is tied or unanimous, no rebuttal call is issued,
\* the debate-argument list stays empty, no re-vote call is issued, and once the
\* Final Vote stage is over the final VoteSet is the initial VoteSet.
C11_NoDebateOnTieOrUnanimity ==
    (Tied(validator_votes) \/ Unanimous(validator_votes)) =>
        /\ ~debate.active
        /\ calls.rebuttal = 0
        /\ debate_arguments = << >>
        /\ calls.revote = 0
        /\ pc \in PastFinalVote => final_votes = validator_votes
        /\ result.returned =>
              /\ result.debate_arguments = << >>
              /\ result.final_votes = result.initial_votes

\* a returned run over a tied VoteSet of four votes
C11_Witness ==
    /\ result.returned
    /\ Len(result.initial_votes) = 4
    /\ Tied(result.initial_votes)
    /\ result.final_votes = result.initial_votes

\* position of a reviewer in the configuration
IndexOf(id) == CHOOSE i \in 1 .. N : ReviewerIds[i] = id

\* the debate arguments collected so far
ArgumentsSoFar == IF debate.active THEN debate.debate_arguments ELSE debate_arguments

\* C12: every debate argument belongs to a reviewer of the initial VoteSet whose
\* decision is held by strictly fewer reviewers than not; it records that
\* decision as its side and that reviewer's initial confidence; the arguments
\* appear in VoteSet order, at most one per reviewer.
C12_OnlyMinorityArgues ==
    \A a \in 1 .. Len(ArgumentsSoFar) :
        LET arg == ArgumentsSoFar[a]
            i == IndexOf(arg.validator_id)
        IN  /\ i <= Len(validator_votes)
            /\ validator_votes[i].validator_id = arg.validator_id
            /\ arg.side = validator_votes[i].vote
            /\ 2 * CountVotes(validator_votes, arg.side) < Len(validator_votes)
            /\ arg.original_confidence = validator_votes[i].confidence
            /\ \A b \in 1 .. Len(ArgumentsSoFar) :
                  a < b => i < IndexOf(ArgumentsSoFar[b].validator_id)

\* a returned run with two debate arguments
C12_Witness ==
    /\ result.returned
    /\ Len(result.debate_arguments) = 2
    /\ CountVotes(result.initial_votes, result.debate_arguments[1].side) = 2

\* C13: a failed rebuttal call adds no entry: the debate-argument list holds one
\* entry per rebuttal call that succeeded.
C13_FailedRebuttalDropped ==
    Len(ArgumentsSoFar) = calls.rebuttal - calls.rebuttal_failed
                              - (IF debate.active /\ debate.inflight THEN 1 ELSE 0)

\* a returned run in which a rebuttal call failed and the debate-argument list
\* holds an entry for every rebuttal call
C13_PlaceholderArgument ==
    /\ result.returned
    /\ calls.rebuttal_failed > 0
    /\ Len(result.debate_arguments) = calls.rebuttal

\* C14: whenever the debate-argument list is empty when the Final Vote node
\* runs, no re-vote call is issued and the final VoteSet is the initial VoteSet,
\* element for element.
C14_NoRequeryWithoutDebate ==
    /\ (pc = "final_vote" /\ debate_arguments = << >>) =>
          /\ final_vote_tasks = << >>
          /\ calls.revote = 0
    /\ (pc \in PastFinalVote /\ debate_arguments = << >>) =>
          /\ final_vote_tasks = << >>
          /\ calls.revote = 0
          /\ final_votes = validator_votes
    /\ (result.returned /\ result.debate_arguments = << >>) =>
          result.final_votes = result.initial_votes

\* a returned run whose minority argued, every rebuttal call failing, and whose
\* debate-argument list is empty
C14_Witness ==
    /\ result.returned
    /\ calls.rebuttal > 0
    /\ calls.rebuttal_failed = calls.rebuttal
    /\ result.debate_arguments = << >>
    /\ result.final_votes = result.initial_votes
    /\ Len(result.final_votes) = N

\* the prompt summary names every debate argument, in order
SummaryOfAll(summary, args) ==
    /\ Len(summary) = Len(args)
    /\ \A a \in 1 .. Len(args) :
          /\ summary[a][1] = args[a].validator_id
          /\ summary[a][2] = args[a].side
          /\ summary[a][3] = args[a].original_confidence
          /\ summary[a][4] = args[a].argument

\* C15: whenever the debate-argument list is non-empty, the Final Vote node
\* issues exactly one re-vote call per vote of the initial VoteSet, majority and
\* minority alike, each for that reviewer's initial vote and each with the
\* summary of all debate arguments; by the end of the stage every one of them
\* has completed.
C15_RequeryEveryReviewer ==
    /\ final_vote_tasks # << >> =>
          /\ debate_arguments # << >>
          /\ calls.revote = Len(validator_votes)
          /\ Len(final_vote_tasks) = Len(validator_votes)
          /\ \A i \in 1 .. Len(final_vote_tasks) :
                /\ final_vote_tasks[i].original_vote = validator_votes[i]
                /\ SummaryOfAll(final_vote_tasks[i].summary, debate_arguments)
    /\ (pc \in PastFinalVote /\ debate_arguments # << >>) =>
          /\ final_vote_tasks # << >>
          /\ \A i \in 1 .. Len(final_vote_tasks) : final_vote_tasks[i].state = "done"

\* a returned run with two debate arguments and five re-vote calls
C15_Witness ==
    /\ result.returned
    /\ Len(result.debate_arguments) = 2
    /\ calls.revote = N
    /\ Len(final_vote_tasks) = N

\* C16: a reviewer whose re-vote call failed keeps its initial vote unchanged
\* (decision, confidence, reasoning, concerns), and the reviewers whose call
\* did not fail hold the vote their own response determines.
C16_FailedRevoteKeepsVote ==
    /\ \A i \in Failures(final_vote_tasks) :
          final_vote_tasks[i].result = validator_votes[i]
    /\ pc \in PastFinalVote =>
          \A i \in 1 .. Len(final_vote_tasks) :
              IF i \in Failures(final_vote_tasks)
              THEN final_votes[i] = validator_votes[i]
              ELSE final_votes[i] =
                       get_final_vote(variant, validator_votes[i],
                                      final_vote_tasks[i].response)

\* a returned run in which the re-vote call of an approving reviewer failed and
\* another reviewer changed its decision
C16_Witness ==
    /\ result.returned
    /\ \E i \in Failures(final_vote_tasks) :
          /\ result.initial_votes[i].vote = "APPROVE"
          /\ result.final_votes[i] = result.initial_votes[i]
    /\ \E j \in 1 .. Len(result.final_votes) :
          result.final_votes[j].vote # result.initial_votes[j].vote

SameFrame(initial, final) ==
    /\ Len(final) = Len(initial)
    /\ \A i \in 1 .. Len(final) :
          /\ final[i].validator_id = initial[i].validator_id
          /\ final[i].role = initial[i].role
          /\ final[i].concerns = initial[i].concerns

\* C17: once the Final Vote stage is over, final_votes[i] has the reviewer id,
\* the role label and the concerns list of initial_votes[i] for every index i,
\* whatever the re-vote responses contained; the same holds of every re-vote
\* call that has completed and of the returned result.
C17_RevoteKeepsIdRoleConcerns ==
    /\ \A i \in 1 .. Len(final_vote_tasks) :
          final_vote_tasks[i].state = "done" =>
              SameFrame(<< validator_votes[i] >>, << final_vote_tasks[i].result >>)
    /\ pc \in PastFinalVote => SameFrame(validator_votes, final_votes)
    /\ result.returned => SameFrame(result.initial_votes, result.final_votes)

\* a returned run in which a re-vote response carried a concerns value of its
\* own and changed its reviewer's decision
C17_Witness ==
    /\ result.returned
    /\ \E i \in 1 .. Len(final_vote_tasks) :
          /\ final_vote_tasks[i].response.kind = "content"
          /\ final_vote_tasks[i].response.concerns.py = "None"
          /\ result.final_votes[i].vote # result.initial_votes[i].vote
          /\ result.final_votes[i].concerns = result.initial_votes[i].concerns

\* the indices at which the decisions differ, over the overlapping index range
DecisionDifferences(initial, final) ==
    { i \in 1 .. Min2(Len(initial), Len(final)) : final[i].vote # initial[i].vote }

\* C18: the reported votes_changed is the number of indices, over the
\* overlapping index range, at which the final decision differs from the
\* initial decision; it is 0 when the final VoteSet is the initial VoteSet, and
\* never exceeds N.
C18_VotesChangedCount ==
    result.returned =>
        /\ result.voting_summary.votes_changed =
               Cardinality(DecisionDifferences(result.initial_votes, result.final_votes))
        /\ result.final_votes = result.initial_votes =>
               result.voting_summary.votes_changed = 0
        /\ result.voting_summary.votes_changed <= N

\* a returned run in which two reviewers changed their decision and a third
\* changed only its reasoning
C18_Witness ==
    /\ result.returned
    /\ result.voting_summary.votes_changed = 2
    /\ \E i \in 1 .. Len(result.final_votes) :
          /\ result.final_votes[i].vote = result.initial_votes[i].vote
          /\ result.final_votes[i].reasoning # result.initial_votes[i].reasoning

\* a monetary keyword occurs in the lower-cased search text of the result
MonetaryText ==
    \E keyword \in monetary_keywords :
        Contains(SearchText(result.proposal, proposal_input), keyword)

\* C19: the returned classification is "yes" exactly when the decision is
\* APPROVED, the draft succeeded and a monetary keyword occurs as a substring of
\* the lower-cased search text; a text containing "treasury" classifies "yes"
\* under APPROVED and "no" under REJECTED.
C19_FungibleIff ==
    result.returned =>
        /\ result.fungible \in {"yes", "no"}
        /\ result.fungible = "yes" <=>
               /\ result.decision = "APPROVED"
               /\ result.proposal.kind = "proposal"
               /\ MonetaryText
        /\ (/\ result.proposal.kind = "proposal"
            /\ Contains(Lower(proposal_input.challenge_text), "treasury")) =>
               (result.fungible = "yes" <=> result.decision = "APPROVED")

\* a returned APPROVED run whose text holds no monetary keyword and whose
\* classification is "no"
C19_Witness ==
    /\ result.returned
    /\ result.decision = "APPROVED"
    /\ result.proposal.kind = "proposal"
    /\ ~MonetaryText
    /\ result.fungible = "no"

OtherSide(side) == IF side = "APPROVE" THEN "REJECT" ELSE "APPROVE"

\* the VoteSet with every APPROVE and REJECT exchanged
Swapped(votes) == [i \in 1 .. Len(votes) |-> [votes[i] EXCEPT !.vote = OtherSide(@)]]

\* the positions of the minority members
MinorityPositions(votes) ==
    { i \in 1 .. Len(votes) : votes[i].vote = MinoritySide(votes) }

\* C20: for every VoteSet of APPROVE and REJECT votes, a debate is held over the
\* swapped VoteSet exactly when one is held over the VoteSet; where the counts
\* differ the swapped VoteSet selects the other minority side, with the minority
\* members at the same positions; and the side and members the Debate Round node
\* selected for the VoteSet are those of this relation.
C20_MinoritySymmetric ==
    LET votes == validator_votes
        swapped == Swapped(validator_votes)
    IN  (\A i \in 1 .. Len(votes) : votes[i].vote \in {"APPROVE", "REJECT"}) =>
            /\ DebateHeld(swapped) <=> DebateHeld(votes)
            /\ (votes # << >> /\ ~Tied(votes)) =>
                  /\ MinoritySide(swapped) = OtherSide(MinoritySide(votes))
                  /\ MinorityPositions(swapped) = MinorityPositions(votes)
                  /\ Len(MinorityValidators(swapped)) = Len(MinorityValidators(votes))
            /\ debate.active =>
                  /\ DebateHeld(swapped)
                  /\ debate.minority_side = OtherSide(MinoritySide(swapped))
                  /\ { IndexOf(debate.minority_validators[m].validator_id) :
                         m \in 1 .. Len(debate.minority_validators) }
                       = MinorityPositions(swapped)
            /\ pc \in PastDebate => (calls.rebuttal > 0 <=> DebateHeld(swapped))

\* the Debate Round node has selected REJECT as the minority side of a VoteSet of
\* three votes, its single member in the second position
C20_Witness ==
    /\ debate.active
    /\ Len(validator_votes) = 3
    /\ debate.minority_side = "REJECT"
    /\ MinorityPositions(validator_votes) = {2}
    /\ MinorityPositions(Swapped(validator_votes)) = {2}

\* the decision of every vote of both rounds is one of the two tokens
DecisionsAreTokens ==
    /\ \A i \in 1 .. Len(validator_votes) :
           validator_votes[i].vote \in {"APPROVE", "REJECT"}
    /\ \A i \in 1 .. Len(final_votes) :
           final_votes[i].vote \in {"APPROVE", "REJECT"}

\* C21: in every round the decision of every Vote is exactly APPROVE or REJECT,
\* and an Initial Vote whose response carries no recognized token is REJECT.
C21_DecisionIsApproveOrReject ==
    /\ DecisionsAreTokens
    /\ \A i \in 1 .. Len(vote_tasks) :
           (/\ vote_tasks[i].state = "done"
            /\ vote_tasks[i].response.kind \in {"content", "prose"}
            /\ ToUpper(vote_tasks[i].response.vote) \notin {"APPROVE", "REJECT"}) =>
               vote_tasks[i].result.vote = "REJECT"

\* a returned run of the ml copy whose first reviewer's initial decision is the
\* lower-case string of the response, kept as it came
C21_VerbatimDecision ==
    /\ result.returned
    /\ variant = "ml"
    /\ validator_votes # << >>
    /\ validator_votes[1].vote = "approve"
    /\ vote_tasks[1].response.vote = "approve"

\* C21 in the main copy: the regex and the ternary leave only the two tokens
C21_MainDecisionIsToken == variant = "main" => C21_DecisionIsApproveOrReject

\* the arguments of the debate loop over the members from position m on, each
\* rebuttal call answered by resp
RECURSIVE ArgumentsFrom(_, _, _, _, _)
ArgumentsFrom(var, members, side, resp, m) ==
    IF m > Len(members) THEN << >>
    ELSE DebateEntry(var, members[m], side, resp)
             \o ArgumentsFrom(var, members, side, resp, m + 1)

\* the result of a run on its own: run() as a function of the request, the draft
\* and the answers the run's own calls received (in the runs compared every
\* rebuttal call has one possible answer)
Alone(var, run) ==
    LET proposal == run.generated_proposal
        votes == IF proposal.kind = "error" THEN << >>
                 ELSE [i \in 1 .. N |->
                          get_validator_vote(var, ReviewerIds[i],
                                             run.vote_tasks[i].response)]
        rebuttal == CHOOSE resp \in RebuttalResponses(run.profile) : TRUE
        args == IF DebateHeld(votes)
                THEN ArgumentsFrom(var, MinorityValidators(votes),
                                   MinoritySide(votes), rebuttal, 1)
                ELSE << >>
        final == IF votes = << >> \/ args = << >> THEN votes
                 ELSE [i \in 1 .. Len(votes) |->
                          get_final_vote(var, votes[i],
                                         run.final_vote_tasks[i].response)]
        ws == WeightedSum(final)
        decision == IF votes = << >> THEN "REJECTED" ELSE Decide(ws)
        score == IF votes = << >> THEN SentinelScore(var)
                 ELSE IF args = << >> THEN NoDebateScore(var, ws)
                 ELSE Round2(ws)
    IN  [returned |-> TRUE,
         proposal |-> proposal,
         initial_votes |-> votes,
         debate_arguments |-> args,
         final_votes |-> final,
         decision |-> decision,
         weighted_score |-> score,
         fungible |-> Classify(decision, proposal, run.proposal_input),
         voting_summary |->
            [initial_approve |-> CountVotes(votes, "APPROVE"),
             initial_reject |-> CountVotes(votes, "REJECT"),
             final_approve |-> CountVotes(final, "APPROVE"),
             final_reject |-> CountVotes(final, "REJECT"),
             votes_changed |-> VotesChanged(var, votes, final)]]

\* C22: of two runs in flight together on the one generator, a step of one
\* leaves the state of the other as it was, and the result each run returns is
\* the result of that run on its own, whatever the interleaving.
C22_RunsIndependent ==
    suspended # NoRun =>
        \A run \in {RunState, suspended} :
            /\ run.result.returned => run.result = Alone(variant, run)
            /\ run.proposal_input \in Requests(run.profile)

\* the first run has returned its result while the second, which started before
\* the first had finished, is in the middle of its re-vote round
C22_Witness ==
    /\ suspended # NoRun
    /\ profile = "first"
    /\ result.returned
    /\ result.voting_summary.votes_changed = 4
    /\ suspended.pc = "final_vote"
    /\ \E i, j \in 1 .. Len(suspended.final_vote_tasks) :
          /\ suspended.final_vote_tasks[i].state = "done"
          /\ suspended.final_vote_tasks[j].state = "awaiting"

\* some call of the round has not completed
InFlight(ts) == \E i \in 1 .. Len(ts) : ts[i].state = "awaiting"

\* C23: a voting round is a full join: the step that leaves the Initial Vote node
\* for the Debate, and the step that computes the score and the decision, are
\* taken only when no call of the round is in flight; hence no call of the
\* Initial Vote is in flight once the Debate has started, and none of the
\* re-vote once the score is there.
C23_FullJoin ==
    [][ /\ (pc = "parallel_initial_vote" /\ pc' # "parallel_initial_vote") =>
              /\ ~InFlight(vote_tasks)
              /\ ~InFlight(vote_tasks')
              /\ vote_tasks # << >> =>
                    /\ Len(validator_votes') = Len(vote_tasks)
                    /\ \A i \in 1 .. Len(vote_tasks) :
                          validator_votes'[i] = vote_tasks[i].result
        /\ (pc = "final_vote" /\ pc' # "final_vote") =>
              /\ ~InFlight(final_vote_tasks)
              /\ ~InFlight(final_vote_tasks')
        /\ (\/ weighted_score' # weighted_score
            \/ final_decision' # final_decision
            \/ final_votes' # final_votes) =>
              /\ pc = "final_vote"
              /\ ~InFlight(final_vote_tasks)
        /\ (pc' = "debate_round" \/ debate'.active) => ~InFlight(vote_tasks')
      ]_vars

\* the score has been computed after a re-vote round of N calls, one of which
\* had failed, and all of which have completed
C23_Witness ==
    /\ pc = "determine_fungibility"
    /\ Len(final_vote_tasks) = N
    /\ ~InFlight(final_vote_tasks)
    /\ Failures(final_vote_tasks) = {N}
    /\ calls.revote = N

\* the position of a stage in the order of the run
StageOrder ==
    << "generate_proposal", "parallel_initial_vote", "debate_round", "final_vote",
       "determine_fungibility", "END", "returned" >>
Stage(p) == CHOOSE k \in 1 .. Len(StageOrder) : StageOrder[k] = p

\* C24: the stages of a run execute in the order Draft, Initial Vote, Debate,
\* Final Vote (with scoring), Classify, Done: every step either stays in its
\* stage or enters the next one (a run that raises leaves the order for good),
\* so no stage is entered twice or revisited; a stage is entered only after its
\* predecessor has produced its output; and each stage makes its calls once.
C24_StrictLinearOrder ==
    [][ /\ pc \in {"returned", "raised"} => pc' = pc
        /\ (pc' # pc /\ pc' # "raised") => Stage(pc') = Stage(pc) + 1
        /\ pc' = "raised" => pc \in {"debate_round", "raised"}
        /\ (pc' # pc /\ pc' = "parallel_initial_vote") =>
               generated_proposal'.kind \in {"proposal", "error"}
        /\ (pc' # pc /\ pc' = "debate_round") =>
               (generated_proposal.kind = "proposal" => Len(validator_votes') = N)
        /\ (pc' # pc /\ pc' = "determine_fungibility") =>
               final_decision' \in {"APPROVED", "REJECTED"}
        /\ (pc' # pc /\ pc' = "END") => fungible' \in {"yes", "no"}
        /\ calls'.draft <= 1
        /\ calls'.review <= N
        /\ calls'.rebuttal <= N
        /\ calls'.revote <= N
        /\ generated_proposal # NoProposal => generated_proposal' = generated_proposal
      ]_vars

\* a run that went through a debate of two members and a re-vote has reached
\* Done, every stage having made its calls once
C24_Witness ==
    /\ pc = "returned"
    /\ calls = [draft |-> 1, review |-> N, rebuttal |-> 2, rebuttal_failed |-> 0,
                revote |-> N]
    /\ result.returned

\* the rebuttal calls made so far that have returned or raised
RebuttalsCompleted == IF debate.active THEN debate.next - 1 ELSE calls.rebuttal

\* C25: the rebuttal calls of the minority members are dispatched together: by
\* the time any of them has completed, the call of every member has been made
\* (so that with two members the second call is in flight before the first has
\* completed), and the Debate ends only when every call has completed.
C25_RebuttalsConcurrent ==
    /\ (debate.active /\ RebuttalsCompleted >= 1) =>
           calls.rebuttal = Len(debate.minority_validators)
    /\ (pc \in PastDebate /\ pc # "raised") =>
           RebuttalsCompleted = calls.rebuttal

\* the first of two minority members has had its rebuttal answered and the call
\* of the second has not been made yet
C25_SecondCallNotMade ==
    /\ debate.active
    /\ Len(debate.minority_validators) = 2
    /\ debate.next = 2
    /\ ~debate.inflight
    /\ calls.rebuttal = 1

\* C25 as the code has it: the loop awaits each rebuttal before it makes the
\* next call, so at most one call is in flight and the calls complete in the
\* order of the minority members
C25_RebuttalsOneAtATime ==
    /\ calls.rebuttal - RebuttalsCompleted \in {0, 1}
    /\ debate.active =>
           /\ calls.rebuttal - RebuttalsCompleted = (IF debate.inflight THEN 1 ELSE 0)
           /\ calls.rebuttal <= Len(debate.minority_validators)

\* run() has returned a result with a decision and a classification
Done ==
    /\ pc = "returned"
    /\ result.returned
    /\ result.decision \in {"APPROVED", "REJECTED"}
    /\ result.fungible \in {"yes", "no"}

\* C26: if every oracle call eventually returns or fails, every run eventually
\* reaches Done, with a decision in {APPROVED, REJECTED} and a classification
\* in {yes, no}.
C26_EventuallyDone == <>Done

\* a run of the ml copy has stopped in the Debate node with an exception, every
\* call it made having completed
C26_StoppedBeforeDone ==
    /\ pc = "raised"
    /\ variant = "ml"
    /\ ~InFlight(vote_tasks)
    /\ ~result.returned
    /\ final_decision = ""

\* C26 in the main copy, and in the ml copy for the runs in which no response
\* carries a null concerns value
C26_MainEventuallyDone == (variant = "main" \/ profile # "null") => <>Done

\* C27: no stage edits the output of an earlier stage: once produced, the
\* initial VoteSet is left as it is by the Debate, Final Vote and Classify
\* stages (on the no-debate path the final VoteSet is the initial one), the
\* debate arguments by the Final Vote and Classify stages, and the final
\* VoteSet, the score and the decision by the Classify stage; the result
\* reports each output as its stage produced it.
C27_EarlierOutputsUnchanged ==
    [][ /\ pc \in PastInitialVote => validator_votes' = validator_votes
        /\ (pc \in PastInitialVote /\ vote_tasks # << >>) =>
               /\ vote_tasks' = vote_tasks
               /\ \A i \in 1 .. Len(vote_tasks) :
                      validator_votes'[i] = vote_tasks[i].result
        /\ pc \in PastDebate => debate_arguments' = debate_arguments
        /\ pc \in PastFinalVote =>
               /\ final_votes' = final_votes
               /\ weighted_score' = weighted_score
               /\ final_decision' = final_decision
        /\ (pc = "final_vote" /\ pc' # pc /\ final_vote_tasks = << >>) =>
               final_votes' = validator_votes
        /\ result'.returned =>
               /\ result'.initial_votes = validator_votes
               /\ result'.debate_arguments = debate_arguments
               /\ result'.final_votes = final_votes
               /\ result'.weighted_score = weighted_score
               /\ result'.decision = final_decision
      ]_vars

\* a run has returned after a re-vote in which a reviewer changed its decision:
\* the initial VoteSet of the result is still the one of the Initial Vote
C27_Witness ==
    /\ result.returned
    /\ final_vote_tasks # << >>
    /\ \E i \in 1 .. Len(final_votes) : final_votes[i].vote # validator_votes[i].vote
    /\ result.initial_votes = validator_votes
    /\ result.final_votes # result.initial_votes

\* the run computed its score by the formula: the draft succeeded, so there are votes
ScoreByFormula == result.returned /\ result.final_votes # << >>

\* C28: on the no-debate path and on the re-vote path alike, the weighted
\* score of the result is the formula's sum rounded to 2 decimal digits.
C28_ReportedScoreRounded ==
    ScoreByFormula =>
        LET ws == WeightedSum(result.final_votes)
        IN  /\ result.weighted_score.k = ws.k
            /\ result.weighted_score.e = FloatRound(ws.k, 0).e

\* a returned run of the main copy on the no-debate path whose reported score
\* is the sum itself, which is not the double nearest to its 2-digit rounding
C28_UnroundedReport ==
    /\ ScoreByFormula
    /\ variant = "main"
    /\ final_vote_tasks = << >>
    /\ result.weighted_score = WeightedSum(result.final_votes)
    /\ result.weighted_score.e # FloatRound(result.weighted_score.k, 0).e

\* C28 where it holds: the re-vote path of both copies and the no-debate path of
\* the ml copy
C28_RoundedElsewhere ==
    (ScoreByFormula /\ (variant = "ml" \/ final_vote_tasks # << >>)) =>
        LET ws == WeightedSum(result.final_votes)
        IN  /\ result.weighted_score.k = ws.k
            /\ result.weighted_score.e = FloatRound(ws.k, 0).e

\* the number of votes the debate selector and the scoring formula take as
\* APPROVE: those whose decision is the string "APPROVE"
Approvals(votes) == Cardinality({ i \in 1 .. Len(votes) : votes[i].vote = "APPROVE" })

\* C29: after a successful draft the counts of the voting summary add up to the
\* number of reviewers in both rounds, and the APPROVE counts are those the
\* debate selector (initial round) and the scoring formula (final round) counted.
C29_CountsConsistent ==
    (result.returned /\ result.proposal.kind = "proposal") =>
        LET summary == result.voting_summary
        IN  /\ summary.initial_approve + summary.initial_reject = N
            /\ summary.final_approve + summary.final_reject = N
            /\ summary.initial_approve = Approvals(validator_votes)
            /\ summary.final_approve = Approvals(final_votes)
            /\ summary.initial_reject = Len(validator_votes) - Approvals(validator_votes)
            /\ summary.final_reject = Len(final_votes) - Approvals(final_votes)

\* a returned run of the ml copy, after a successful draft, whose initial counts
\* add up to fewer than the N votes of the round
C29_CountsShort ==
    /\ result.returned
    /\ result.proposal.kind = "proposal"
    /\ variant = "ml"
    /\ Len(result.initial_votes) = N
    /\ result.voting_summary.initial_approve + result.voting_summary.initial_reject < N

\* C29 in the main copy, and the APPROVE counts in both copies
C29_MainCountsConsistent ==
    (result.returned /\ result.proposal.kind = "proposal") =>
        LET summary == result.voting_summary
        IN  /\ summary.initial_approve = Approvals(validator_votes)
            /\ summary.final_approve = Approvals(final_votes)
            /\ variant = "main" =>
                  /\ summary.initial_approve + summary.initial_reject = N
                  /\ summary.final_approve + summary.final_reject = N

\* C30: in every terminal state the decision of the result is APPROVED exactly
\* when the weighted score of the result is greater than 0, on the draft-failure
\* path, the no-debate path and the re-vote path.
C30_DecisionAgreesWithReport ==
    result.returned =>
        (result.decision = "APPROVED" <=>
            (result.weighted_score.k > 0
                \/ (result.weighted_score.k = 0 /\ result.weighted_score.e > 0)))

\* a returned run of the ml copy whose decision is APPROVED and whose reported
\* score is 0.0, after a re-vote in which every call failed
C30_ApprovedAtZero ==
    /\ result.returned
    /\ variant = "ml"
    /\ result.decision = "APPROVED"
    /\ result.weighted_score = FloatZero
    /\ Len(final_vote_tasks) = N
    /\ Failures(final_vote_tasks) = 1 .. N

\* C30 on the draft-failure path of both copies and on every path whose sum is
\* not a float tie
C30_AgreesOffTies ==
    (result.returned /\ (result.final_votes = << >> \/ profile # "ties")) =>
        (result.decision = "APPROVED" <=>
            (result.weighted_score.k > 0
                \/ (result.weighted_score.k = 0 /\ result.weighted_score.e > 0)))

\* the number of votes of a VoteSet on the side held by fewer reviewers, as the
\* comparison of the two counts names it
MinoritySize(votes) ==
    LET approve == Approvals(votes)
        side == IF approve > Len(votes) - approve THEN "REJECT" ELSE "APPROVE"
    IN  Cardinality({ i \in 1 .. Len(votes) : votes[i].vote = side })

\* C31: whenever the Debate round makes rebuttal calls the minority is
\* non-trivial, 1 <= |minority| < N - |minority|, so a run makes at most
\* (N - 1) \div 2 rebuttal calls; and a VoteSet whose votes all carry one
\* decision has an empty minority, so the minority is never the whole VoteSet.
C31_MinorityNonTrivial ==
    /\ debate.active =>
          LET m == Len(debate.minority_validators)
          IN  /\ 1 <= m
              /\ m < Len(validator_votes) - m
              /\ m = MinoritySize(validator_votes)
              /\ Len(validator_votes) = N
    /\ calls.rebuttal <= (N - 1) \div 2
    /\ calls.rebuttal > 0 => 1 <= MinoritySize(validator_votes)
    /\ pc \in PastInitialVote /\ validator_votes # << >> =>
          /\ MinoritySize(validator_votes) < Len(validator_votes)
          /\ (\A i \in 1 .. Len(validator_votes) :
                 validator_votes[i].vote = validator_votes[1].vote) =>
                 MinoritySize(validator_votes) = 0

\* the Debate round has made its second rebuttal call, for the second of two
\* minority members out of N
C31_Witness ==
    /\ debate.active
    /\ debate.inflight
    /\ debate.next = 2
    /\ Len(debate.minority_validators) = 2
    /\ calls.rebuttal = 2

\* every vote of a non-empty VoteSet carries the decision side
AllVote(votes, side) ==
    /\ votes # << >>
    /\ \A i \in 1 .. Len(votes) : votes[i].vote = side

\* what follows the Initial Vote when the decision is fixed by unanimity: no
\* rebuttal and no re-vote call, the final VoteSet is the initial one, and the
\* run ends with the decision given and no vote changed
FixedBy(decision) ==
    /\ pc # "raised"
    /\ calls.rebuttal = 0
    /\ calls.revote = 0
    /\ final_vote_tasks = << >>
    /\ pc \in PastDebate => debate_arguments = << >>
    /\ pc \in PastFinalVote =>
          /\ final_votes = validator_votes
          /\ final_decision = decision
    /\ result.returned =>
          /\ result.decision = decision
          /\ result.voting_summary.votes_changed = 0
          /\ result.final_votes = result.initial_votes

\* C32: a unanimous initial VoteSet fixes the outcome without a further oracle
\* call: unanimous APPROVE ends APPROVED, unanimous REJECT ends REJECTED, no
\* vote changes; a round in which all N review calls fail is unanimous REJECT.
C32_UnanimityFixesOutcome ==
    pc \in PastInitialVote =>
        /\ AllVote(validator_votes, "APPROVE") => FixedBy("APPROVED")
        /\ AllVote(validator_votes, "REJECT") => FixedBy("REJECTED")
        /\ (vote_tasks # << >> /\ Failures(vote_tasks) = 1 .. N) =>
               /\ AllVote(validator_votes, "REJECT")
               /\ FixedBy("REJECTED")

\* a run in which all N review calls failed has returned REJECTED, having made
\* the draft call and the N review calls only
C32_Witness ==
    /\ result.returned
    /\ Failures(vote_tasks) = 1 .. N
    /\ result.decision = "REJECTED"
    /\ calls = [draft |-> 1, review |-> N, rebuttal |-> 0, rebuttal_failed |-> 0,
                revote |-> 0]

\* a run whose N reviews all approved has returned APPROVED
C32_UnanimousApprove ==
    /\ result.returned
    /\ AllVote(result.initial_votes, "APPROVE")
    /\ result.decision = "APPROVED"

\* the result carries the sentinel score -10.0
SentinelReported == result.weighted_score = FloatOfInt(-10)

\* C33: the sentinel score is unambiguous: a score computed by the formula is
\* at most N in absolute value, the score of the result is the sentinel -10.0
\* exactly when the draft failed, and a sentinel score comes with the decision
\* REJECTED and empty vote lists.
C33_SentinelUnambiguous ==
    result.returned =>
        /\ result.final_votes # << >> =>
               /\ Abs(result.weighted_score.k) <= N * ScoreDen
               /\ ~SentinelReported
        /\ SentinelReported <=> result.proposal.kind = "error"
        /\ SentinelReported =>
               /\ result.decision = "REJECTED"
               /\ result.initial_votes = << >>
               /\ result.final_votes = << >>

\* a returned run of the ml copy whose draft failed and whose score is 0.0
C33_DraftFailedWithZero ==
    /\ result.returned
    /\ variant = "ml"
    /\ result.proposal.kind = "error"
    /\ result.weighted_score = FloatZero
    /\ result.decision = "REJECTED"
    /\ result.final_votes = << >>

\* C33 in the main copy, and the bound on the formula's score in both copies
C33_MainSentinelUnambiguous ==
    result.returned =>
        /\ result.final_votes # << >> =>
               /\ Abs(result.weighted_score.k) <= N * ScoreDen
               /\ ~SentinelReported
        /\ variant = "main" =>
               /\ SentinelReported <=> result.proposal.kind = "error"
               /\ SentinelReported =>
                      /\ result.decision = "REJECTED"
                      /\ result.initial_votes = << >>
                      /\ result.final_votes = << >>

\* C34: on every path (draft failure, no debate, debate with re-vote) the
\* decision is APPROVED or REJECTED when the fungibility classifier runs, never
\* the empty string of the initial state, so that a run whose decision is not
\* APPROVED is never classified "yes".
C34_DecisionSetBeforeClassify ==
    /\ pc \in PastFinalVote => final_decision \in {"APPROVED", "REJECTED"}
    /\ pc \notin PastFinalVote => (final_decision = "" /\ fungible = "")
    /\ fungible = "yes" => final_decision = "APPROVED"
    /\ fungible # "" => (pc \in {"END", "returned"} /\ fungible \in {"yes", "no"})
    /\ result.returned =>
          /\ result.decision \in {"APPROVED", "REJECTED"}
          /\ result.fungible = "yes" => result.decision = "APPROVED"

\* the classifier has run after a re-vote that ended REJECTED, on a proposal
\* whose text holds a monetary keyword, and answered "no"
C34_Witness ==
    /\ pc = "END"
    /\ final_vote_tasks # << >>
    /\ final_decision = "REJECTED"
    /\ generated_proposal.kind = "proposal"
    /\ MonetaryText
    /\ fungible = "no"

\* the re-vote calls that returned an answer
Answered(ts) ==
    { i \in 1 .. Len(ts) : ts[i].state = "done" /\ ts[i].response.kind # "raise" }

\* the answer names one of the two decisions, in either case
NamesDecision(resp) ==
    resp.kind = "content" /\ ToUpper(resp.vote) \in {"APPROVE", "REJECT"}

\* C35: a re-vote answer without a recognizable decision token keeps the
\* reviewer's initial decision, one without a confidence number keeps the
\* initial confidence, within [1, 10]; the defaults REJECT and 5 of the initial
\* round are not applied, and a decision changes only to the other decision,
\* named by the answer.
C35_RevoteKeepsWhatIsMissing ==
    \A i \in Answered(final_vote_tasks) :
        LET resp == final_vote_tasks[i].response
            original == final_vote_tasks[i].original_vote
            final == final_vote_tasks[i].result
        IN  /\ ~NamesDecision(resp) => final.vote = original.vote
            /\ (resp.kind = "prose" \/ resp.confidence.t # "num") =>
                   final.confidence = original.confidence
            /\ final.confidence >= Num(1)
            /\ final.confidence <= Num(10)
            /\ final.vote # original.vote =>
                   /\ NamesDecision(resp)
                   /\ final.vote = ToUpper(resp.vote)
                   /\ final.vote = OtherSide(original.vote)

\* a re-vote of the ml copy has taken the word of the answer, which names
\* neither decision, as the reviewer's final decision
C35_UnknownWordTaken ==
    \E i \in Answered(final_vote_tasks) :
        /\ variant = "ml"
        /\ final_vote_tasks[i].response.vote = "abstain"
        /\ final_vote_tasks[i].original_vote.vote = "APPROVE"
        /\ final_vote_tasks[i].result.vote = "abstain"

\* C35 in the main copy, and the confidence half of it in both copies
C35_MainRevoteKeepsWhatIsMissing ==
    \A i \in Answered(final_vote_tasks) :
        LET resp == final_vote_tasks[i].response
            original == final_vote_tasks[i].original_vote
            final == final_vote_tasks[i].result
        IN  /\ (resp.kind = "prose" \/ resp.confidence.t # "num") =>
                   final.confidence = original.confidence
            /\ final.confidence >= Num(1)
            /\ final.confidence <= Num(10)
            /\ variant = "main" =>
                  /\ ~NamesDecision(resp) => final.vote = original.vote
                  /\ final.vote # original.vote =>
                         /\ NamesDecision(resp)
                         /\ final.vote = OtherSide(original.vote)

\* a re-vote of the main copy has kept the initial decision and confidence of a
\* reviewer whose answer named neither
C35_MainKeptBoth ==
    \E i \in Answered(final_vote_tasks) :
        /\ variant = "main"
        /\ final_vote_tasks[i].response.vote = "abstain"
        /\ final_vote_tasks[i].result.vote = final_vote_tasks[i].original_vote.vote
        /\ final_vote_tasks[i].result.confidence = PlainConf
====
